---------------------------- MODULE Spec2Model ----------------------------
(***************************************************************************)
(* Flat-File-Reader: the data-access layer (fileLoader.ts), the custom     *)
(* editor that calls it (extension.ts) and the webview that drives both.   *)
(*                                                                         *)
(* Text is a sequence of atoms.  An atom is a one-character string for     *)
(* names, needles and cell text, or a whole SQL lexeme ("SELECT", "LIMIT") *)
(* for the fixed parts of a statement; the concatenation of the atoms is   *)
(* the JavaScript string.                                                  *)
(***************************************************************************)
EXTENDS Integers, Sequences, FiniteSets, TLC

(***************************************************************************)
(* Bounds of the model.                                                    *)
(***************************************************************************)
MaxRows == 2
MaxOffset == 2
MaxHistory == 2
MaxBudget == 3
MaxEdits == 4

(***************************************************************************)
(* Program constants.                                                      *)
(***************************************************************************)
\* Number.MAX_SAFE_INTEGER, the "unbounded" limit of exportData; held at the
\* largest value the checker's integers can carry.
\* withRetry(operation, maxAttempts = 10, delayMs = 500)
DefaultMaxAttempts == 10
DefaultDelayMs == 500

MAX_SAFE_INTEGER == 2147483647
\* pageSize of resolveCustomEditor
pageSize == 100

(***************************************************************************)
(* String helpers of the JavaScript runtime.                               *)
(***************************************************************************)
WS == {" ", "\t"}

RECURSIVE DropWs(_)
DropWs(s) == IF s # <<>> /\ s[1] \in WS THEN DropWs(Tail(s)) ELSE s

\* s.replace(/\s+/g, r)
RECURSIVE ReplaceWsRuns(_, _)
ReplaceWsRuns(s, r) ==
    IF s = <<>> THEN <<>>
    ELSE IF s[1] \in WS THEN r \o ReplaceWsRuns(DropWs(Tail(s)), r)
    ELSE <<s[1]>> \o ReplaceWsRuns(Tail(s), r)

RECURSIVE Reverse(_)
Reverse(s) == IF s = <<>> THEN <<>> ELSE Reverse(Tail(s)) \o <<s[1]>>

\* s.trim()
Trim(s) == Reverse(DropWs(Reverse(DropWs(s))))

\* s.replace(/'/g, "''")
RECURSIVE EscapeQuotes(_)
EscapeQuotes(s) ==
    IF s = <<>> THEN <<>>
    ELSE IF s[1] = "'" THEN <<"'", "'">> \o EscapeQuotes(Tail(s))
    ELSE <<s[1]>> \o EscapeQuotes(Tail(s))

\* parts.join(sep)
RECURSIVE Join(_, _)
Join(parts, sep) ==
    IF parts = <<>> THEN <<>>
    ELSE IF Len(parts) = 1 THEN parts[1]
    ELSE parts[1] \o sep \o Join(Tail(parts), sep)

\* xs.map(f)
Map(xs, f(_)) == [i \in 1..Len(xs) |-> f(xs[i])]

Range(s) == {s[i] : i \in 1..Len(s)}

NoDuplicates(s) == \A i, j \in 1..Len(s) : s[i] = s[j] => i = j

Min(a, b) == IF a < b THEN a ELSE b

\* String.prototype.toLowerCase on the extensions the model uses
toLowerCase(ext) ==
    CASE ext = ".CSV" -> ".csv"
      [] ext = ".XML" -> ".xml"
      [] ext = ".Xlsx" -> ".xlsx"
      [] OTHER -> ext

(***************************************************************************)
(* fileLoader.ts: detectFileType and sanitizeColumnName                    *)
(***************************************************************************)
sanitizeColumnNameRunPerChar(name) ==
    [i \in 1..Len(name) |-> IF name[i] \in WS THEN "_" ELSE name[i]]

sanitizeColumnName(name) == ReplaceWsRuns(name, <<"_">>)

detectFileType(ext) ==
    LET e == toLowerCase(ext) IN
    IF e = ".csv" THEN "csv"
    ELSE IF e = ".tsv" THEN "tsv"
    ELSE IF e = ".parquet" \/ e = ".pq" THEN "parquet"
    ELSE IF e = ".xlsx" \/ e = ".xls" THEN "excel"
    ELSE IF e = ".json" THEN "json"
    ELSE IF e = ".xml" THEN "xml"
    ELSE "csv"

(***************************************************************************)
(* JavaScript values.  A value is [t, s]: its type tag and its text.       *)
(***************************************************************************)
Text(s) == [t |-> "string", s |-> s]
BigInt(n) == [t |-> "bigint", s |-> <<ToString(n)>>]
Undefined == [t |-> "undefined", s |-> <<>>]

\* Object.keys(row) and row[col] on a row object; a row object is the
\* sequence of its <<key, value>> entries in insertion order.
ObjectKeys(row) == [i \in 1..Len(row) |-> row[i][1]]

Get(row, col) ==
    IF \E i \in 1..Len(row) : row[i][1] = col
    THEN row[CHOOSE i \in 1..Len(row) : row[i][1] = col][2]
    ELSE Undefined

(***************************************************************************)
(* The embedded SQL engine (duckdb), as far as the loaders use it: a       *)
(* lexer and parser for the statements the loaders issue, and their        *)
(* evaluation against the table `data` of one connection.                  *)
(***************************************************************************)
NoTable == [exists |-> FALSE, columns |-> <<>>, rows |-> <<>>]

Numerals == (0..(MaxOffset + MaxRows + 2)) \cup {pageSize, MAX_SAFE_INTEGER}

IsNumeral(a) == \E n \in Numerals : ToString(n) = a
ParseNat(a) == CHOOSE n \in Numerals : ToString(n) = a

Upper(a) ==
    CASE a = "select" -> "SELECT"
      [] a = "from" -> "FROM"
      [] a = "where" -> "WHERE"
      [] a = "like" -> "LIKE"
      [] a = "or" -> "OR"
      [] a = "as" -> "AS"
      [] a = "limit" -> "LIMIT"
      [] a = "offset" -> "OFFSET"
      [] a = "count(*)" -> "COUNT(*)"
      [] OTHER -> a

\* index of the quote that closes a literal opened before position i, 0 if none
RECURSIVE CloseQuote(_, _, _)
CloseQuote(s, i, q) ==
    IF i > Len(s) THEN 0
    ELSE IF s[i] # q THEN CloseQuote(s, i + 1, q)
    ELSE IF q = "'" /\ i < Len(s) /\ s[i + 1] = "'" THEN CloseQuote(s, i + 2, q)
    ELSE i

\* the text of a string literal: '' stands for one quote
RECURSIVE Unescape(_)
Unescape(s) ==
    IF s = <<>> THEN <<>>
    ELSE IF s[1] = "'" /\ Len(s) > 1 /\ s[2] = "'"
         THEN <<"'">> \o Unescape(SubSeq(s, 3, Len(s)))
    ELSE <<s[1]>> \o Unescape(Tail(s))

RECURSIVE WordEnd(_, _)
WordEnd(s, i) ==
    IF i > Len(s) \/ s[i] \in WS \cup {"'", "\""} THEN i - 1 ELSE WordEnd(s, i + 1)

RECURSIVE Lex(_)
Lex(s) ==
    IF s = <<>> THEN <<>>
    ELSE IF s[1] \in WS THEN Lex(Tail(s))
    ELSE IF s[1] \in {"'", "\""} THEN
        LET e == CloseQuote(s, 2, s[1]) IN
        IF e = 0 THEN <<[t |-> "error", v |-> <<>>]>>
        ELSE <<[t |-> IF s[1] = "'" THEN "str" ELSE "qident",
                v |-> IF s[1] = "'" THEN Unescape(SubSeq(s, 2, e - 1))
                                    ELSE SubSeq(s, 2, e - 1)]>>
             \o Lex(SubSeq(s, e + 1, Len(s)))
    ELSE LET e == WordEnd(s, 1) IN
         <<[t |-> "word", v |-> SubSeq(s, 1, e)]>> \o Lex(SubSeq(s, e + 1, Len(s)))

IsKw(toks, i, kw) ==
    i <= Len(toks) /\ toks[i].t = "word" /\ Len(toks[i].v) = 1 /\ Upper(toks[i].v[1]) = kw

IsNum(toks, i) ==
    i <= Len(toks) /\ toks[i].t = "word" /\ Len(toks[i].v) = 1 /\ IsNumeral(toks[i].v[1])

IsCond(toks, i) ==
    /\ i + 2 <= Len(toks)
    /\ toks[i].t \in {"word", "qident"}
    /\ IsKw(toks, i + 1, "LIKE")
    /\ toks[i + 2].t = "str"

\* cond (OR cond)* starting at token i: the conditions and the next position
RECURSIVE ParseConds(_, _)
ParseConds(toks, i) ==
    IF ~IsCond(toks, i) THEN [ok |-> FALSE, conds |-> <<>>, next |-> i]
    ELSE LET c == [col |-> toks[i].v, quoted |-> toks[i].t = "qident", pat |-> toks[i + 2].v] IN
         IF IsKw(toks, i + 3, "OR")
         THEN LET r == ParseConds(toks, i + 4) IN
              [ok |-> r.ok, conds |-> <<c>> \o r.conds, next |-> r.next]
         ELSE [ok |-> TRUE, conds |-> <<c>>, next |-> i + 3]

\* SELECT (* | COUNT(*) AS alias) FROM data [WHERE conds] [LIMIT n] [OFFSET m] [LIMIT k]
\* A trailing second LIMIT is what the loaders' `${query} LIMIT 0` produces; it
\* is read as a further cut of the result.
BadStatement ==
    [ok |-> FALSE, count |-> FALSE, alias |-> <<>>, where |-> FALSE,
     conds |-> <<>>, limit |-> -1, offset |-> 0, limit2 |-> -1]

\* the number after keyword kw at token i, or none
Clause(toks, i, kw, none) ==
    IF IsKw(toks, i, kw) /\ IsNum(toks, i + 1) THEN ParseNat(toks[i + 1].v[1]) ELSE none

After(toks, i, kw) == IF IsKw(toks, i, kw) /\ IsNum(toks, i + 1) THEN i + 2 ELSE i

ParseEnd(toks, p, e) == IF e = Len(toks) + 1 THEN p ELSE BadStatement

ParseLimit2(toks, p, m) ==
    ParseEnd(toks, [p EXCEPT !.limit2 = Clause(toks, m, "LIMIT", -1)], After(toks, m, "LIMIT"))

ParseOffset(toks, p, o) ==
    ParseLimit2(toks, [p EXCEPT !.offset = Clause(toks, o, "OFFSET", 0)], After(toks, o, "OFFSET"))

ParseLimit(toks, p, l) ==
    ParseOffset(toks, [p EXCEPT !.limit = Clause(toks, l, "LIMIT", -1)], After(toks, l, "LIMIT"))

ParseWhere(toks, p, pc) ==
    IF pc.ok THEN ParseLimit(toks, [p EXCEPT !.where = TRUE, !.conds = pc.conds], pc.next)
    ELSE BadStatement

ParseFrom(toks, p, f) ==
    IF ~(IsKw(toks, f, "FROM") /\ IsKw(toks, f + 1, "data")) THEN BadStatement
    ELSE IF IsKw(toks, f + 2, "WHERE") THEN ParseWhere(toks, p, ParseConds(toks, f + 3))
    ELSE ParseLimit(toks, p, f + 2)

ParseSelect(toks) ==
    IF (\E i \in 1..Len(toks) : toks[i].t = "error") \/ ~IsKw(toks, 1, "SELECT") THEN BadStatement
    ELSE IF IsKw(toks, 2, "*") THEN ParseFrom(toks, [BadStatement EXCEPT !.ok = TRUE], 3)
    ELSE IF IsKw(toks, 2, "COUNT(*)") /\ IsKw(toks, 3, "AS") /\ 4 <= Len(toks) /\ toks[4].t = "word"
    THEN ParseFrom(toks, [BadStatement EXCEPT !.ok = TRUE, !.count = TRUE, !.alias = toks[4].v], 5)
    ELSE BadStatement

Parse(text) == ParseSelect(Lex(text))

\* text LIKE pat: % matches any run of characters, _ any single character
RECURSIVE Like(_, _)
Like(s, pat) ==
    IF pat = <<>> THEN s = <<>>
    ELSE IF pat[1] = "%" THEN Like(s, Tail(pat)) \/ (s # <<>> /\ Like(Tail(s), pat))
    ELSE IF pat[1] = "_" THEN s # <<>> /\ Like(Tail(s), Tail(pat))
    ELSE s # <<>> /\ s[1] = pat[1] /\ Like(Tail(s), Tail(pat))

ColumnIndex(table, col) ==
    IF \E i \in 1..Len(table.columns) : table.columns[i] = col
    THEN CHOOSE i \in 1..Len(table.columns) : table.columns[i] = col
    ELSE 0

\* the columns a statement references
CondColumns(p) == {p.conds[i].col : i \in 1..Len(p.conds)}
ReferencedColumns(text) == CondColumns(Parse(text))

Matches(table, conds, r) ==
    \E i \in 1..Len(conds) :
        LET k == ColumnIndex(table, conds[i].col) IN
        k # 0 /\ table.rows[r][k].t = "string" /\ Like(table.rows[r][k].s, conds[i].pat)

RECURSIVE Select(_, _, _)
Select(table, conds, r) ==
    IF r > Len(table.rows) THEN <<>>
    ELSE (IF Matches(table, conds, r) THEN <<r>> ELSE <<>>) \o Select(table, conds, r + 1)

\* rows offset+1 .. offset+limit of s (limit < 0: no limit)
Page(s, limit, offset) ==
    SubSeq(s, offset + 1,
           IF limit < 0 \/ limit >= Len(s) THEN Len(s) ELSE Min(offset + limit, Len(s)))

RowObject(table, r) == [k \in 1..Len(table.columns) |-> <<table.columns[k], table.rows[r][k]>>]

\* the rows a parsed statement selects, before LIMIT and OFFSET
Selected(p, table, sel) ==
    IF p.count THEN << <<<<p.alias, BigInt(Len(sel))>>>> >>
    ELSE [i \in 1..Len(sel) |-> RowObject(table, sel[i])]

ExecParsed(p, table) ==
    IF ~p.ok \/ ~table.exists THEN [err |-> TRUE, rows |-> <<>>]
    ELSE IF \E i \in 1..Len(p.conds) : ColumnIndex(table, p.conds[i].col) = 0
    THEN [err |-> TRUE, rows |-> <<>>]
    ELSE [err |-> FALSE,
          rows |-> Page(Page(Selected(p, table,
                                      IF p.where THEN Select(table, p.conds, 1)
                                      ELSE [r \in 1..Len(table.rows) |-> r]),
                             p.limit, p.offset),
                        p.limit2, 0)]

\* con.all(text, callback) on a connection holding `table`: the error flag
\* and the row objects handed to the callback
Exec(text, table) == ExecParsed(Parse(text), table)

(***************************************************************************)
(* Source files.  A delimited file or a worksheet is its lines: the header *)
(* line and the data lines.  A markup file is the tree its parser returns: *)
(* an object is the sequence of its <<key, node>> entries, and a node is a *)
(* value, [t |-> "object", s |-> entries] or [t |-> "array", s |-> nodes]. *)
(***************************************************************************)
Obj(entries) == [t |-> "object", s |-> entries]
Arr(nodes) == [t |-> "array", s |-> nodes]

Headers ==
    { << <<"a">>, <<"b">> >>,
      << <<"a", " ", "b">>, <<"b">> >>,
      << <<"a", " ", "\t", "b">>, <<"a", "_", "b">> >> }

\* the cells of the data lines: line r holds cells 2r-1 and 2r of the pool
CellPool == << <<"B", "o">>, <<"x">>, <<"7">>, <<"y", "'">>, <<"o", "'">>, <<"7">> >>

CellAt(r, k) == Text(CellPool[((r - 1) % 3) * 2 + ((k - 1) % 2) + 1])

RowsOf(width, n) == [r \in 1..n |-> [k \in 1..width |-> CellAt(r, k)]]

HeaderLine(h) == [k \in 1..Len(h) |-> Text(h[k])]

GridFiles(ext) ==
    { [ext |-> ext, lines |-> <<HeaderLine(h)>> \o RowsOf(Len(h), n), parsed |-> <<>>] :
        h \in Headers, n \in 0..MaxRows }

Item(r) == Obj(<< << <<"a">>, CellAt(r, 1) >>,
                  << <<"b">>, Obj(<< << <<"c">>, CellAt(r, 2) >> >>) >> >>
           \o (IF r % 2 = 0 THEN << << <<"d">>, Text(<<>>) >> >> ELSE <<>>))

MarkupFiles ==
    { [ext |-> ".xml", lines |-> <<>>,
       parsed |-> << << <<"?", "x", "m", "l">>, Text(<<>>) >>,
                     << <<"root">>, Obj(<< << <<"n">>, Text(<<"x">>) >>,
                                          << <<"item">>, Arr([r \in 1..n |-> Item(r)]) >> >>) >> >>] :
        n \in 0..MaxRows }
    \cup
    { [ext |-> ".xml", lines |-> <<>>,
       parsed |-> << << <<"root">>, Item(1) >> >>],
      [ext |-> ".xml", lines |-> <<>>, parsed |-> << << <<"?", "x", "m", "l">>, Text(<<>>) >> >>] }

\* the number 0 and the boolean false, as a worksheet cell or a parsed tag value
Zero == [t |-> "number", s |-> <<"0">>]
False == [t |-> "boolean", s |-> <<"false">>]

\* a worksheet with a number and a boolean cell; a document with one record
\* whose tag value is the number 0; a document whose first record has the
\* tags a_b and a/b and whose second record has a repeated tag
TypedFiles ==
    { [ext |-> ".xlsx", lines |-> <<HeaderLine(<< <<"a">>, <<"b">> >>), <<Zero, False>> >>,
       parsed |-> <<>>],
      [ext |-> ".xml", lines |-> <<>>,
       parsed |-> << << <<"root">>, Obj(<< << <<"a">>, Zero >>,
                                          << <<"b">>, Obj(<< << <<"c">>, Text(<<"x">>) >> >>) >> >>) >> >>],
      [ext |-> ".xml", lines |-> <<>>,
       parsed |-> << << <<"root">>,
                       Obj(<< << <<"item">>,
                                 Arr(<< Obj(<< << <<"a", "_", "b">>, Text(<<"x">>) >>,
                                               << <<"a">>, Obj(<< << <<"b">>, Text(<<"y">>) >> >>) >> >>),
                                        Obj(<< << <<"t">>, Arr(<<Text(<<"7">>), Text(<<"x">>)>>) >> >>) >>) >> >>) >> >>] }

Files ==
    GridFiles(".csv") \cup GridFiles(".xlsx") \cup MarkupFiles \cup TypedFiles
    \cup { [ext |-> ".xlsx", lines |-> <<>>, parsed |-> <<>>] }

Offsets == 0..MaxOffset
Limits == {1, 2, pageSize, MAX_SAFE_INTEGER}

Searches == { <<>>, <<" ">>, <<"o">>, <<" ", "o", "'", "\t">> }

DefaultSql == <<"select", " ", "*", " ", "from", " ", "data">>

Sqls ==
    { <<>>, <<" ", "\t">>, DefaultSql,
      <<" ", "SELECT", " ", " ", "COUNT(*)", " ", "as", "\t", "c", " ", "FROM", " ", "data", " ">>,
      <<"select", " ", "*", " ", "from", " ", "data", " ", "where", " ", "b", " ",
        "like", " ", "'", "%", "q", "%", "'">>,
      <<"bogus">> }

(***************************************************************************)
(* State.                                                                  *)
(***************************************************************************)
VARIABLES
    file,       \* the source file at filePath
    call,       \* the running request: operation and arguments
    pending,    \* statements issued on the connection, callbacks not yet fired
    issued,     \* every statement issued on the connection so far
    table,      \* table `data` of the request's engine instance
    ld,         \* the loader's locals: columns, query, total, rows
    result,     \* the promise returned by loadFileData
    outFile,    \* the file at outPath of exportData
    other,      \* a second request in flight: its call, statements, table, locals, promise
    web,        \* the webview: state of the App component
    toExt,      \* messages posted by the webview, not yet handled
    toWeb,      \* messages posted by the extension, not yet handled
    disk,       \* the files a save can write, by extension of their path
    doc,        \* the FlatFileDocument of the editor
    save,       \* the running or finished save
    fin,        \* the running or finished 'finalizeSave' handler
    retry,      \* the running or finished call of withRetry
    isDisposed  \* the flag of resolveCustomEditor that onDidDispose sets

editorVars == <<web, toExt, toWeb, disk, doc, save, fin, retry, isDisposed>>

loaderVars == <<file, call, pending, issued, table, ld, result, outFile, other, other>>

vars == <<file, call, pending, issued, table, ld, result, outFile, other, other,
          web, toExt, toWeb, disk, doc, save, fin, retry, isDisposed>>

NoCall == [op |-> "none", loader |-> "none", offset |-> 0, limit |-> 0,
           search |-> <<>>, sql |-> <<>>]

NoLocals == [columns |-> <<>>, dataRows |-> <<>>, query |-> <<>>, total |-> 0, rows |-> <<>>]

NoResult == [status |-> "none", columns |-> <<>>, rows |-> <<>>, offset |-> 0,
             limit |-> 0, total |-> 0, error |-> ""]

\* a request that has not been made
NoRequest == [call |-> NoCall, pending |-> <<>>, issued |-> <<>>, table |-> NoTable,
              ld |-> NoLocals, result |-> NoResult]

\* A file a save or an export writes: its format, its header line and its
\* lines of cell text.
NoFile == [exists |-> FALSE, format |-> "", fields |-> <<>>, data |-> <<>>]
OldFile == [exists |-> TRUE, format |-> "old", fields |-> << <<"o", "l", "d">> >>, data |-> <<>>]

\* a file of another program, at a path no save of the editor writes
OtherFile == [exists |-> TRUE, format |-> "other", fields |-> <<>>, data |-> <<>>]

\* the paths a save is asked to write, by their extension
SaveExts == {".csv", ".tsv", ".xlsx", ".xls", ".parquet", ".pq", ".json", ".xml", ".XML", ".txt", ""}

\* the tables a document holds or a caller saves
Tables ==
    { [columns |-> << <<"a">>, <<"b">> >>, rows |-> RowsOf(2, n)] : n \in 0..MaxRows }

NoDoc == [columns |-> <<>>, rows |-> <<>>]

NoSave == [op |-> "none", dest |-> "", status |-> "none", error |-> "",
           columns |-> <<>>, rows |-> <<>>, pc |-> "", table |-> NoTable]

NoFin == [status |-> "none", error |-> "", attempts |-> 0, tempFile |-> "", renamed |-> NoFile]

\* withRetry: its arguments, the loop counter, the number of calls of
\* operation, how the last call ended, the error codes that were retried and
\* the delays slept so far
NoRetry == [status |-> "none", error |-> "", maxAttempts |-> 0, delayMs |-> 0,
            attempt |-> 0, calls |-> 0, last |-> "", retried |-> {}, waits |-> <<>>]

NoWeb == [mounted |-> FALSE, search |-> <<>>, sqlHistory |-> <<DefaultSql>>, historyIndex |-> 0,
          loading |-> TRUE, error |-> "", columns |-> <<>>,
          data |-> NoResult, dataFor |-> NoCall,
          sent |-> [type |-> "none", offset |-> 0, search |-> <<>>, sql |-> <<>>]]

Init ==
    /\ file \in Files
    /\ call = NoCall
    /\ pending = <<>>
    /\ issued = <<>>
    /\ table = NoTable
    /\ ld = NoLocals
    /\ result = NoResult
    /\ outFile \in {NoFile, OldFile}
    /\ other = NoRequest
    /\ web = NoWeb
    /\ toExt = <<>>
    /\ toWeb = <<>>
    /\ disk = [e \in SaveExts \cup {".tmp", ".bak"} |->
                  IF e = ".tmp" THEN NoFile ELSE IF e = ".bak" THEN OtherFile ELSE OldFile]
    /\ doc = NoDoc
    /\ save = NoSave
    /\ fin = NoFin
    /\ retry = NoRetry
    /\ isDisposed = FALSE

(***************************************************************************)
(* Statement texts.                                                        *)
(***************************************************************************)
CountQuery == <<"SELECT", " ", "COUNT(*)", " ", "as", " ", "total", " ", "FROM", " ", "data">>

\* `SELECT * FROM data LIMIT ${limit} OFFSET ${offset}`
PageQuery(limit, offset) ==
    <<"SELECT", " ", "*", " ", "FROM", " ", "data", " ", "LIMIT", " ", ToString(limit),
      " ", "OFFSET", " ", ToString(offset)>>

\* `SELECT * FROM data WHERE ${conditions} LIMIT ${limit} OFFSET ${offset}`
SearchQuery(conditions, limit, offset) ==
    <<"SELECT", " ", "*", " ", "FROM", " ", "data", " ", "WHERE", " ">> \o conditions
    \o <<" ", "LIMIT", " ", ToString(limit), " ", "OFFSET", " ", ToString(offset)>>

\* the needle with its quotes left single
NeedleUnescaped(search) == Trim(search)

\* search.trim().replace(/'/g, "''")
Needle(search) == EscapeQuotes(Trim(search))

\* columns.map(col => `${col} LIKE '%${needle}%'`).join(' OR ')
Conditions(columns, needle) ==
    Join([i \in 1..Len(columns) |->
            columns[i] \o <<" ", "LIKE", " ", "'", "%">> \o needle \o <<"%", "'">>],
         <<" ", "OR", " ">>)

\* columns.map(col => `"${col}" LIKE '%${needle}%'`).join(' OR ')
QuotedConditions(columns, needle) ==
    Join([i \in 1..Len(columns) |->
            <<"\"">> \o columns[i] \o <<"\"", " ", "LIKE", " ", "'", "%">> \o needle \o <<"%", "'">>],
         <<" ", "OR", " ">>)

\* the statement with its whitespace runs kept
CustomQueryUncollapsed(sql) == Trim(sql)

\* sql.replace(/\s+/g, ' ').trim()
CustomQuery(sql) == Trim(ReplaceWsRuns(sql, <<" ">>))

\* `${query} LIMIT 0`
Limit0Query(query) == query \o <<" ", "LIMIT", " ", "0">>

(***************************************************************************)
(* Engine commands other than queries.                                     *)
(***************************************************************************)
Stmt(cb, text) == [cb |-> cb, text |-> text]

\* CREATE TABLE data AS SELECT * FROM read_csv(...): the header line names
\* the columns, every later line is a row
ReadCsv(f) ==
    [exists |-> TRUE,
     columns |-> [k \in 1..Len(f.lines[1]) |-> f.lines[1][k].s],
     rows |-> Tail(f.lines)]

\* DESCRIBE data: one row per column, its name under column_name
Describe(t) == [k \in 1..Len(t.columns) |-> << <<"column_name", t.columns[k]>> >>]

\* the outcome of a query of the connection: the engine's own error, or a
\* fault of the run
Outcome(text, fault) ==
    LET r == Exec(text, table) IN IF fault THEN [err |-> TRUE, rows |-> <<>>] ELSE r

Rejected(msg) == [NoResult EXCEPT !.status = "rejected", !.error = msg]

\* the engine's diagnostic for a failed statement
Diagnostic(cb) == "engine: " \o cb

(***************************************************************************)
(* fileLoader.ts: loadWithDuckDB                                           *)
(***************************************************************************)
\* returnData without the conversion of wide integers
returnDataBigintKept(cols, dataRows, total) ==
    [status |-> "resolved",
     columns |-> cols,
     rows |-> [r \in 1..Len(dataRows) |-> [k \in 1..Len(cols) |-> Get(dataRows[r], cols[k])]],
     offset |-> call.offset, limit |-> call.limit, total |-> total, error |-> ""]

\* returnData with the number of returned rows as the total
returnDataTotalOfPage(cols, dataRows, total) ==
    [status |-> "resolved",
     columns |-> cols,
     rows |-> [r \in 1..Len(dataRows) |->
                 [k \in 1..Len(cols) |->
                    LET value == Get(dataRows[r], cols[k]) IN
                    IF value.t = "bigint" THEN Text(value.s) ELSE value]],
     offset |-> call.offset, limit |-> call.limit, total |-> Len(dataRows), error |-> ""]

\* returnData(cols, dataRows): row[col] for every col, wide integers as text
returnData(cols, dataRows, total) ==
    [status |-> "resolved",
     columns |-> cols,
     rows |-> [r \in 1..Len(dataRows) |->
                 [k \in 1..Len(cols) |->
                    LET value == Get(dataRows[r], cols[k]) IN
                    IF value.t = "bigint" THEN Text(value.s) ELSE value]],
     offset |-> call.offset, limit |-> call.limit, total |-> total, error |-> ""]

\* Object.keys(rows[0]).map(sanitizeColumnName)
QueryColumns(rows) == Map(ObjectKeys(rows[1]), sanitizeColumnName)

loadWithDuckDB(op, offset, limit, search, sql) ==
    /\ call' = [op |-> op, loader |-> "duckdb", offset |-> offset, limit |-> limit,
                search |-> search, sql |-> sql]
    /\ pending' = <<Stmt("register", <<>>)>>
    /\ issued' = <<Stmt("register", <<>>)>>
    /\ table' = NoTable
    /\ ld' = NoLocals
    /\ result' = [NoResult EXCEPT !.status = "pending"]
    /\ UNCHANGED <<file, outFile>>

Fire(cb) == pending # <<>> /\ Head(pending).cb = cb /\ result.status = "pending"

Reject(msg) ==
    /\ result' = Rejected(msg)
    /\ pending' = Tail(pending)
    /\ UNCHANGED <<file, call, issued, table, ld, outFile>>

Issue(stmts) ==
    /\ pending' = Tail(pending) \o stmts
    /\ issued' = issued \o stmts

\* the search path with executeQuery() called at once, as on the other paths
SearchStatementsUnguarded == <<Stmt("describeSearch", <<>>), Stmt("count", CountQuery)>>

\* hasSearch = true: DESCRIBE data is issued, and executeQuery() is left to
\* its callback by `if (!hasSearch)`
SearchStatements == <<Stmt("describeSearch", <<>>)>>

\* callback of con.run(registerQuery)
RegisterCallback ==
    /\ Fire("register")
    /\ UNCHANGED <<editorVars, other>>
    /\ \E err \in BOOLEAN :
        IF err THEN Reject(Diagnostic("register"))
        ELSE /\ table' = ReadCsv(file)
             /\ IF Trim(call.sql) # <<>>
                THEN /\ ld' = [ld EXCEPT !.query = CustomQuery(call.sql)]
                     /\ Issue(<<Stmt("logCount", <<>>), Stmt("count", CountQuery)>>)
                ELSE IF Trim(call.search) # <<>>
                THEN /\ ld' = ld
                     /\ Issue(<<Stmt("logCount", <<>>)>> \o SearchStatements)
                ELSE /\ ld' = [ld EXCEPT !.query = PageQuery(call.limit, call.offset)]
                     /\ Issue(<<Stmt("logCount", <<>>), Stmt("count", CountQuery)>>)
             /\ UNCHANGED <<file, call, result, outFile>>

\* callback of the row count that is only logged
LogCountCallback ==
    /\ Fire("logCount")
    /\ UNCHANGED <<editorVars, other>>
    /\ pending' = Tail(pending)
    /\ UNCHANGED <<file, call, issued, table, ld, result, outFile>>

\* callback of DESCRIBE data on the search path; ends in executeQuery()
DescribeSearchCallback ==
    /\ Fire("describeSearch")
    /\ UNCHANGED <<editorVars, other>>
    /\ \E err \in BOOLEAN :
        IF err THEN Reject(Diagnostic("describe"))
        ELSE LET rawColumns == [i \in 1..Len(Describe(table)) |-> Get(Describe(table)[i], "column_name")]
                 columns == Map(rawColumns, sanitizeColumnName)
                 conditions == Conditions(columns, Needle(call.search))
             IN  /\ ld' = [ld EXCEPT !.query = SearchQuery(conditions, call.limit, call.offset)]
                 /\ Issue(<<Stmt("count", CountQuery)>>)
                 /\ UNCHANGED <<file, call, table, result, outFile>>

\* executeQuery: callback of the count query
CountCallback ==
    /\ Fire("count")
    /\ UNCHANGED <<editorVars, other>>
    /\ \E fault \in BOOLEAN :
        LET r == Outcome(CountQuery, fault) IN
        IF r.err THEN Reject(Diagnostic("count"))
        ELSE /\ ld' = [ld EXCEPT !.total = ParseNat(Get(r.rows[1], <<"total">>).s[1])]
             /\ Issue(<<Stmt("describe", <<>>)>>)
             /\ UNCHANGED <<file, call, table, result, outFile>>

\* executeQuery: callback of DESCRIBE data
DescribeCallback ==
    /\ Fire("describe")
    /\ UNCHANGED <<editorVars, other>>
    /\ \E err \in BOOLEAN :
        IF err THEN Reject(Diagnostic("describe"))
        ELSE /\ Issue(<<Stmt("query", ld.query)>>)
             /\ UNCHANGED <<file, call, table, ld, result, outFile>>

\* executeQuery: callback of con.all(query)
QueryCallback ==
    /\ Fire("query")
    /\ UNCHANGED <<editorVars, other>>
    /\ \E fault \in BOOLEAN :
        LET r == Outcome(ld.query, fault) IN
        IF r.err THEN Reject(Diagnostic("query"))
        ELSE IF Len(r.rows) > 0
        THEN /\ result' = returnData(QueryColumns(r.rows), r.rows, ld.total)
             /\ pending' = Tail(pending)
             /\ UNCHANGED <<file, call, issued, table, ld, outFile>>
        ELSE /\ ld' = [ld EXCEPT !.rows = r.rows]
             /\ Issue(<<Stmt("limit0", Limit0Query(ld.query))>>)
             /\ UNCHANGED <<file, call, table, result, outFile>>

\* executeQuery: callback of con.all(`${query} LIMIT 0`)
Limit0Callback ==
    /\ Fire("limit0")
    /\ UNCHANGED <<editorVars, other>>
    /\ \E fault \in BOOLEAN :
        LET r == Outcome(Limit0Query(ld.query), fault) IN
        IF r.err THEN Reject(Diagnostic("limit0"))
        ELSE /\ result' = returnData(IF Len(r.rows) > 0 THEN QueryColumns(r.rows) ELSE <<>>,
                                     ld.rows, ld.total)
             /\ pending' = Tail(pending)
             /\ UNCHANGED <<file, call, issued, table, ld, outFile>>

(***************************************************************************)
(* fileLoader.ts: flattenObject, loadWithExcelJS, loadWithXML              *)
(***************************************************************************)
\* acc[key] = value
Assign(acc, key, value) ==
    IF \E i \in 1..Len(acc) : acc[i][1] = key
    THEN [i \in 1..Len(acc) |-> IF acc[i][1] = key THEN <<key, value>> ELSE acc[i]]
    ELSE Append(acc, <<key, value>>)

\* Object.assign(acc, source)
RECURSIVE ObjectAssign(_, _)
ObjectAssign(acc, source) ==
    IF source = <<>> THEN acc
    ELSE ObjectAssign(Assign(acc, source[1][1], source[1][2]), Tail(source))

RECURSIVE flattenObject(_, _)
RECURSIVE FlattenFrom(_, _, _, _)
FlattenFrom(obj, prefix, i, acc) ==
    IF i > Len(obj) THEN acc
    ELSE LET key == obj[i][1]
             newKey == IF prefix # <<>> THEN prefix \o <<"_">> \o key ELSE key
         IN  FlattenFrom(obj, prefix, i + 1,
                IF obj[i][2].t = "object"
                THEN ObjectAssign(acc, flattenObject(obj[i][2].s, newKey))
                ELSE Assign(acc, newKey, obj[i][2]))

flattenObject(obj, prefix) == FlattenFrom(obj, prefix, 1, <<>>)

\* the falsy values of JavaScript
Falsy(v) ==
    \/ v.t \in {"undefined", "null"}
    \/ v.t = "string" /\ v.s = <<>>
    \/ v.t = "number" /\ v.s = <<"0">>
    \/ v.t = "boolean" /\ v.s = <<"false">>

\* val || ''
OrEmpty(v) == IF Falsy(v) THEN Text(<<>>) ELSE v

\* String(val): an array is its elements joined by commas, null and
\* undefined elements as nothing; an object has one text for all objects
RECURSIVE String(_)
String(v) ==
    IF v.t = "array"
    THEN Join([i \in 1..Len(v.s) |->
                 IF v.s[i].t \in {"undefined", "null"} THEN <<>> ELSE String(v.s[i])], <<",">>)
    ELSE IF v.t = "object" THEN <<"[object Object]">>
    ELSE IF v.t \in {"undefined", "null"} THEN <<v.t>>
    ELSE v.s

\* `'${String(val || '').replace(/'/g, "''")}'`
InsertLiteral(v) == <<"'">> \o EscapeQuotes(String(OrEmpty(v))) \o <<"'">>

\* the value the engine stores for a literal of an INSERT
Stored(lit) == Text(Lex(lit)[1].v)

\* the keys of all records, each once, in order of first appearance
RECURSIVE AllKeys(_, _)
AllKeys(records, seen) ==
    IF records = <<>> THEN seen
    ELSE LET ks == ObjectKeys(records[1])
             new == SelectSeq(ks, LAMBDA k : k \notin Range(seen))
         IN  AllKeys(Tail(records), seen \o new)

\* the record axis of a parsed document
Items(parsed) ==
    LET rootKeys == SelectSeq(ObjectKeys(parsed), LAMBDA k : k[1] # "?")
        rootObj == Get(parsed, rootKeys[1])
        subKeys == ObjectKeys(rootObj.s)
        arrays == SelectSeq(subKeys, LAMBDA k : Get(rootObj.s, k).t = "array")
    IN  IF rootKeys = <<>> THEN <<>>
        ELSE IF rootObj.t = "array" THEN rootObj.s
        ELSE IF arrays # <<>> THEN Get(rootObj.s, arrays[1]).s
        ELSE <<rootObj>>

Staged(op, loader, offset, limit, search, sql, columns, dataRows) ==
    /\ call' = [op |-> op, loader |-> loader, offset |-> offset, limit |-> limit,
                search |-> search, sql |-> sql]
    /\ ld' = [NoLocals EXCEPT !.columns = columns, !.dataRows = dataRows]
    /\ pending' = <<Stmt("createTable", <<>>)>>
    /\ issued' = <<Stmt("createTable", <<>>)>>
    /\ table' = NoTable
    /\ result' = [NoResult EXCEPT !.status = "pending"]
    /\ UNCHANGED <<file, outFile>>

Settle(op, loader, offset, limit, search, sql, r) ==
    /\ call' = [op |-> op, loader |-> loader, offset |-> offset, limit |-> limit,
                search |-> search, sql |-> sql]
    /\ result' = r
    /\ pending' = <<>>
    /\ issued' = <<>>
    /\ table' = NoTable
    /\ ld' = NoLocals
    /\ UNCHANGED <<file, outFile>>

Empty(offset, limit) ==
    [NoResult EXCEPT !.status = "resolved", !.offset = offset, !.limit = limit]

loadWithExcelJS(op, offset, limit, search, sql) ==
    \E readFails \in BOOLEAN :
        IF readFails THEN Settle(op, "excel", offset, limit, search, sql, Rejected("read"))
        ELSE LET rows == file.lines IN
             IF Len(rows) = 0 THEN Settle(op, "excel", offset, limit, search, sql, Empty(offset, limit))
             ELSE LET rawColumns == rows[1]
                      columns == [k \in 1..Len(rawColumns) |-> sanitizeColumnName(rawColumns[k].s)]
                  IN  Staged(op, "excel", offset, limit, search, sql, columns, Tail(rows))

loadWithXML(op, offset, limit, search, sql) ==
    \E readFails \in BOOLEAN :
        IF readFails THEN Settle(op, "xml", offset, limit, search, sql, Rejected("read"))
        ELSE LET items == Items(file.parsed) IN
             IF Len(items) = 0 \/ items[1].t \notin {"object", "array"}
             THEN Settle(op, "xml", offset, limit, search, sql, Empty(offset, limit))
             ELSE LET flattenedItems == [i \in 1..Len(items) |-> flattenObject(items[i].s, <<>>)]
                      columns == Map(AllKeys(flattenedItems, <<>>), sanitizeColumnName)
                      dataRows == [i \in 1..Len(items) |->
                                     [k \in 1..Len(columns) |-> OrEmpty(Get(flattenedItems[i], columns[k]))]]
                  IN  Staged(op, "xml", offset, limit, search, sql, columns, dataRows)

\* runQuery(): the statement by precedence, then the count query
runQuery ==
    /\ ld' = [ld EXCEPT !.query =
                IF Trim(call.sql) # <<>> THEN CustomQuery(call.sql)
                ELSE IF Trim(call.search) # <<>>
                THEN SearchQuery(QuotedConditions(ld.columns, Needle(call.search)),
                                 call.limit, call.offset)
                ELSE PageQuery(call.limit, call.offset)]
    /\ Issue(<<Stmt("count2", CountQuery)>>)

\* callback of con.run(createTableQuery); the engine refuses a table without
\* columns or with two columns of one name
CreateTableCallback ==
    /\ Fire("createTable")
    /\ UNCHANGED <<editorVars, other>>
    /\ \E fault \in BOOLEAN :
        IF fault \/ ld.columns = <<>> \/ ~NoDuplicates(ld.columns)
        THEN Reject(Diagnostic("createTable"))
        ELSE /\ table' = [exists |-> TRUE, columns |-> ld.columns, rows |-> <<>>]
             /\ IF Len(ld.dataRows) > 0
                THEN ld' = ld /\ Issue(<<Stmt("insert", <<>>)>>)
                ELSE runQuery
             /\ UNCHANGED <<file, call, result, outFile>>

\* callback of con.run(insertQuery)
InsertCallback ==
    /\ Fire("insert")
    /\ UNCHANGED <<editorVars, other>>
    /\ \E err \in BOOLEAN :
        IF err THEN Reject(Diagnostic("insert"))
        ELSE /\ table' = [table EXCEPT !.rows =
                            [r \in 1..Len(ld.dataRows) |->
                               [k \in 1..Len(ld.dataRows[r]) |-> Stored(InsertLiteral(ld.dataRows[r][k]))]]]
             /\ runQuery
             /\ UNCHANGED <<file, call, result, outFile>>

\* runQuery: callback of the count query
StagedCountCallback ==
    /\ Fire("count2")
    /\ UNCHANGED <<editorVars, other>>
    /\ \E fault \in BOOLEAN :
        LET r == Outcome(CountQuery, fault) IN
        IF r.err THEN Reject(Diagnostic("count"))
        ELSE /\ ld' = [ld EXCEPT !.total = ParseNat(Get(r.rows[1], <<"total">>).s[1])]
             /\ Issue(<<Stmt("query2", ld.query)>>)
             /\ UNCHANGED <<file, call, table, result, outFile>>

\* runQuery: callback of con.all(query)
StagedQueryCallback ==
    /\ Fire("query2")
    /\ UNCHANGED <<editorVars, other>>
    /\ \E fault \in BOOLEAN :
        LET r == Outcome(ld.query, fault) IN
        IF r.err THEN Reject("Hey! Dude please enter correct SQL..")
        ELSE IF Len(r.rows) > 0
        THEN /\ result' = returnData(QueryColumns(r.rows), r.rows, ld.total)
             /\ pending' = Tail(pending)
             /\ UNCHANGED <<file, call, issued, table, ld, outFile>>
        ELSE /\ ld' = [ld EXCEPT !.rows = r.rows]
             /\ Issue(<<Stmt("limit02", Limit0Query(ld.query))>>)
             /\ UNCHANGED <<file, call, table, result, outFile>>

\* runQuery: callback of con.all(`${query} LIMIT 0`)
StagedLimit0Callback ==
    /\ Fire("limit02")
    /\ UNCHANGED <<editorVars, other>>
    /\ \E fault \in BOOLEAN :
        LET r == Outcome(Limit0Query(ld.query), fault) IN
        IF r.err THEN Reject(Diagnostic("limit0"))
        ELSE /\ result' = returnData(IF Len(r.rows) > 0 THEN QueryColumns(r.rows) ELSE <<>>,
                                     ld.rows, ld.total)
             /\ pending' = Tail(pending)
             /\ UNCHANGED <<file, call, issued, table, ld, outFile>>

(***************************************************************************)
(* fileLoader.ts: loadFileData, exportData                                 *)
(***************************************************************************)
loadFileData(op, offset, limit, search, sql) ==
    LET type == detectFileType(file.ext) IN
    IF type = "excel" THEN loadWithExcelJS(op, offset, limit, search, sql)
    ELSE IF type = "xml" THEN loadWithXML(op, offset, limit, search, sql)
    ELSE loadWithDuckDB(op, offset, limit, search, sql)

\* a caller's loadFileData(filePath, offset, limit, search, sql)
LoadFileData ==
    /\ call.op = "none"
    /\ \E offset \in Offsets, limit \in Limits, search \in Searches, sql \in Sqls :
        loadFileData("load", offset, limit, search, sql)
    /\ UNCHANGED <<editorVars, other>>

\* exportData up to its await
ExportData ==
    /\ call.op = "none"
    /\ \E search \in Searches, sql \in Sqls :
        loadFileData("export", 0, MAX_SAFE_INTEGER, search, sql)
    /\ UNCHANGED <<editorVars, other>>

\* the text Papa.unparse writes for a value
CsvCell(v) == IF v.t \in {"undefined", "null"} THEN <<>> ELSE v.s

\* the data lines without the header line
UnparseNoHeader(fields, data) ==
    [exists |-> TRUE, format |-> "csv", fields |-> <<>>,
     data |-> [r \in 1..Len(data) |-> [k \in 1..Len(data[r]) |-> CsvCell(data[r][k])]]]

\* Papa.unparse({fields, data})
Unparse(fields, data) ==
    [exists |-> TRUE, format |-> "csv", fields |-> fields,
     data |-> [r \in 1..Len(data) |-> [k \in 1..Len(data[r]) |-> CsvCell(data[r][k])]]]

\* exportData after its await: fs.writeFileSync(outPath, csv)
ExportWrite ==
    /\ call.op = "export"
    /\ result.status = "resolved"
    /\ call' = [call EXCEPT !.op = "exported"]
    /\ outFile' = Unparse(result.columns, result.rows)
    /\ UNCHANGED <<file, pending, issued, table, ld, result>>
    /\ UNCHANGED <<editorVars, other>>

(***************************************************************************)
(* Two requests in flight.  Every call of a loader makes its own            *)
(* duckdb.Database(':memory:') and keeps db, con, query, total and the      *)
(* promise in its own closure; the event loop runs the callbacks of the two *)
(* calls in any order.  The variables call .. result hold the request whose *)
(* callback runs next, `other` holds the request that waits.                *)
(***************************************************************************)
\* the inputs of the requests that run side by side
ConcurrentSearches == {<<>>, <<"o">>}
ConcurrentSqls ==
    {<<>>, <<" ", "SELECT", " ", " ", "COUNT(*)", " ", "as", "\t", "c", " ", "FROM", " ", "data", " ">>}

\* one database for all calls
SharedDatabase(own, last) == last

\* const db = new duckdb.Database(':memory:'): the table a request's
\* connection sees is the one of its own database, whatever ran last
Database(own, last) == own

\* a caller's loadFileData(filePath, 0, 1, search, sql) while another request
\* may be in flight
ConcurrentLoad ==
    /\ call.op = "none"
    /\ \E search \in ConcurrentSearches, sql \in ConcurrentSqls :
        loadFileData("load", 0, 1, search, sql)
    /\ UNCHANGED <<editorVars, other>>

\* the event loop turns to the other request
Switch ==
    /\ call.op # "none"
    /\ other' = [call |-> call, pending |-> pending, issued |-> issued, table |-> table,
                 ld |-> ld, result |-> result]
    /\ call' = other.call
    /\ pending' = other.pending
    /\ issued' = other.issued
    /\ table' = Database(other.table, table)
    /\ ld' = other.ld
    /\ result' = other.result
    /\ UNCHANGED <<file, outFile>>
    /\ UNCHANGED editorVars

ConcurrentNext ==
    \/ ConcurrentLoad
    \/ Switch
    \/ RegisterCallback
    \/ LogCountCallback
    \/ DescribeSearchCallback
    \/ CountCallback
    \/ DescribeCallback
    \/ QueryCallback
    \/ Limit0Callback
    \/ CreateTableCallback
    \/ InsertCallback
    \/ StagedCountCallback
    \/ StagedQueryCallback
    \/ StagedLimit0Callback

\* two loadFileData requests on one file
ConcurrentSpec == Init /\ [][ConcurrentNext]_vars

(***************************************************************************)
(* webview App and extension.ts: the search bar, requestPage, fetchPage    *)
(***************************************************************************)
\* JSON.parse(JSON.stringify(data, ...)): undefined in an array becomes null,
\* a wide integer its text
JsonValue(v) ==
    IF v.t = "undefined" THEN [t |-> "null", s |-> <<>>]
    ELSE IF v.t = "bigint" THEN Text(v.s)
    ELSE v

JsonData(data) ==
    [data EXCEPT !.rows = [r \in 1..Len(data.rows) |->
                             [k \in 1..Len(data.rows[r]) |-> JsonValue(data.rows[r][k])]]]

\* App.requestPage(offset, s, q): s ?? search, q ?? sql
RequestPage(offset, s, q) ==
    [type |-> "requestPage", offset |-> offset, search |-> s, sql |-> q]

\* the effect that runs once when the App is mounted
WebMount ==
    /\ ~web.mounted
    /\ ~isDisposed
    /\ web' = [web EXCEPT !.mounted = TRUE, !.loading = TRUE, !.error = "",
                          !.sent = RequestPage(0, web.search, web.sqlHistory[web.historyIndex + 1])]
    /\ toExt' = Append(toExt, RequestPage(0, web.search, web.sqlHistory[web.historyIndex + 1]))
    /\ UNCHANGED <<file, call, pending, issued, table, ld, result, outFile, other, toWeb, disk, doc, save, fin, retry, isDisposed>>

\* onChange of the search input
WebSetSearch ==
    /\ web.mounted
    /\ ~web.loading
    /\ \E s \in Searches :
        /\ s # web.search
        /\ web' = [web EXCEPT !.search = s]
    /\ UNCHANGED <<file, call, pending, issued, table, ld, result, outFile, other, toExt, toWeb, disk, doc, save, fin, retry, isDisposed>>

\* the texts typed into the SQL textarea
WebSqls == {<<>>, DefaultSql}

\* addToHistory that keeps the entries after historyIndex
addToHistoryKeepingRedo(w, newSql) ==
    IF newSql # w.sqlHistory[w.historyIndex + 1]
    THEN [w EXCEPT !.sqlHistory = Append(w.sqlHistory, newSql),
                   !.historyIndex = w.historyIndex + 1]
    ELSE w

\* addToHistory(newSql)
addToHistory(w, newSql) ==
    IF newSql # w.sqlHistory[w.historyIndex + 1]
    THEN [w EXCEPT !.sqlHistory = Append(SubSeq(w.sqlHistory, 1, w.historyIndex + 1), newSql),
                   !.historyIndex = w.historyIndex + 1]
    ELSE w

\* onChange of the SQL textarea
WebSetSql ==
    /\ web.mounted
    /\ ~web.loading
    /\ web.historyIndex + 1 < MaxHistory
    /\ \E q \in WebSqls :
        /\ q # web.sqlHistory[web.historyIndex + 1]
        /\ web' = addToHistory(web, q)
    /\ UNCHANGED <<file, call, pending, issued, table, ld, result, outFile, other, toExt, toWeb, disk, doc, save, fin, retry, isDisposed>>

\* onKeyDown of the search input with Enter: requestPage(0); one request is
\* outstanding at a time
WebSearchEnter ==
    /\ web.mounted
    /\ ~web.loading
    /\ toWeb = <<>>
    /\ web' = [web EXCEPT !.loading = TRUE, !.error = "",
                          !.sent = RequestPage(0, web.search, web.sqlHistory[web.historyIndex + 1])]
    /\ toExt' = Append(toExt, RequestPage(0, web.search, web.sqlHistory[web.historyIndex + 1]))
    /\ UNCHANGED <<file, call, pending, issued, table, ld, result, outFile, other, toWeb, disk, doc, save, fin, retry, isDisposed>>

\* the wrapper without the check of isDisposed
postMessageUnguarded(messages) == toWeb' = toWeb \o messages

\* postMessage and postError: if (!webviewPanel || isDisposed) return;
postMessage(messages) == toWeb' = IF isDisposed THEN toWeb ELSE toWeb \o messages

\* messageHandler for 'requestPage': fetchPage up to its await
ExtRequestPage ==
    /\ toExt # <<>>
    /\ Head(toExt).type = "requestPage"
    /\ call.op \notin {"page"}
    /\ toExt' = Tail(toExt)
    /\ loadFileData("page", Head(toExt).offset, pageSize, Head(toExt).search, Head(toExt).sql)
    /\ UNCHANGED <<web, toWeb, disk, doc, save, fin, retry, isDisposed, other>>

\* fetchPage after its await, loadFileData resolved: the page and the columns
FetchPageResolved ==
    /\ call.op = "page"
    /\ result.status = "resolved"
    /\ call' = [call EXCEPT !.op = "paged"]
    /\ postMessage(<<[type |-> "page", data |-> JsonData(result), message |-> "", for |-> call],
                           [type |-> "columns", data |-> JsonData(result), message |-> "", for |-> call]>>)
    /\ UNCHANGED <<file, pending, issued, table, ld, result, outFile, other, web, toExt, disk, doc, save, fin, retry, isDisposed>>

\* fetchPage after its await, loadFileData rejected: postError
FetchPageRejected ==
    /\ call.op = "page"
    /\ result.status = "rejected"
    /\ call' = [call EXCEPT !.op = "paged"]
    /\ postMessage(<<[type |-> "error", data |-> NoResult, message |-> result.error, for |-> call]>>)
    /\ UNCHANGED <<file, pending, issued, table, ld, result, outFile, other, web, toExt, disk, doc, save, fin, retry, isDisposed>>

\* the webview's message handler
WebOnMessage ==
    /\ toWeb # <<>>
    /\ ~isDisposed
    /\ toWeb' = Tail(toWeb)
    /\ web' = IF Head(toWeb).type = "page"
              THEN [web EXCEPT !.data = Head(toWeb).data, !.dataFor = Head(toWeb).for, !.loading = FALSE]
              ELSE IF Head(toWeb).type = "columns"
              THEN [web EXCEPT !.columns = Head(toWeb).data.columns]
              ELSE IF Head(toWeb).type = "error"
              THEN [web EXCEPT !.loading = FALSE, !.error = Head(toWeb).message,
                               !.data = NoResult, !.dataFor = NoCall]
              ELSE web
    /\ UNCHANGED <<file, call, pending, issued, table, ld, result, outFile, other, toExt, disk, doc, save, fin, retry, isDisposed>>

Next ==
    \/ LoadFileData
    \/ ExportData
    \/ RegisterCallback
    \/ LogCountCallback
    \/ DescribeSearchCallback
    \/ CountCallback
    \/ DescribeCallback
    \/ QueryCallback
    \/ Limit0Callback
    \/ CreateTableCallback
    \/ InsertCallback
    \/ StagedCountCallback
    \/ StagedQueryCallback
    \/ StagedLimit0Callback
    \/ ExportWrite

Spec == Init /\ [][Next]_vars

WebNext ==
    \/ WebMount
    \/ WebSetSearch
    \/ WebSetSql
    \/ WebSearchEnter
    \/ ExtRequestPage
    \/ FetchPageResolved
    \/ FetchPageRejected
    \/ WebOnMessage
    \/ RegisterCallback
    \/ LogCountCallback
    \/ DescribeSearchCallback
    \/ CountCallback
    \/ DescribeCallback
    \/ QueryCallback
    \/ Limit0Callback
    \/ CreateTableCallback
    \/ InsertCallback
    \/ StagedCountCallback
    \/ StagedQueryCallback
    \/ StagedLimit0Callback

\* the editor with its webview open on the file
WebSpec == Init /\ [][WebNext]_vars

(***************************************************************************)
(* Requests of the webview that overlap.  messageHandler is an async       *)
(* function that the extension host calls for every message without        *)
(* waiting for the call before: the fetchPage of a later requestPage runs  *)
(* while an earlier one awaits loadFileData.                               *)
(***************************************************************************)
\* the requestPage messages posted and not yet answered by the extension
Unanswered == Len(toExt) + (IF call.op = "page" THEN 1 ELSE 0) + (IF other.call.op = "page" THEN 1 ELSE 0)

\* onClick of Execute Query: requestPage(0, search, sql); here the button is
\* clicked when nothing is awaited, and no more once the history is full
handleExecuteQuery ==
    /\ web.mounted
    /\ ~web.loading
    /\ Unanswered = 0
    /\ toWeb = <<>>
    /\ web.historyIndex < MaxHistory
    /\ web' = [web EXCEPT !.loading = TRUE, !.error = "",
                          !.sent = RequestPage(0, web.search, web.sqlHistory[web.historyIndex + 1])]
    /\ toExt' = Append(toExt, RequestPage(0, web.search, web.sqlHistory[web.historyIndex + 1]))
    /\ UNCHANGED <<file, call, pending, issued, table, ld, result, outFile, other, toWeb, disk, doc, save, fin, retry, isDisposed>>

\* onClick of Reset: addToHistory('select * from data');
\* requestPage(0, '', 'select * from data'); here the button is clicked while
\* the request of another statement is awaited
handleReset ==
    /\ web.mounted
    /\ Unanswered = 1
    /\ web.sqlHistory[web.historyIndex + 1] # DefaultSql
    /\ web' = [addToHistory(web, DefaultSql) EXCEPT !.loading = TRUE, !.error = "",
                                                    !.sent = RequestPage(0, <<>>, DefaultSql)]
    /\ toExt' = Append(toExt, RequestPage(0, <<>>, DefaultSql))
    /\ UNCHANGED <<file, call, pending, issued, table, ld, result, outFile, other, toWeb, disk, doc, save, fin, retry, isDisposed>>

OverlapNext ==
    \/ WebMount
    \/ WebSetSearch
    \/ WebSetSql
    \/ handleExecuteQuery
    \/ handleReset
    \/ ExtRequestPage
    \/ Switch
    \/ FetchPageResolved
    \/ FetchPageRejected
    \/ WebOnMessage
    \/ CreateTableCallback
    \/ InsertCallback
    \/ StagedCountCallback
    \/ StagedQueryCallback
    \/ StagedLimit0Callback

\* the files the overlapping requests read: the worksheets with the header
\* a, b and MaxRows data rows
OverlapFiles ==
    { f \in GridFiles(".xlsx") :
        Len(f.lines) = MaxRows + 1 /\ f.lines[1] = HeaderLine(<< <<"a">>, <<"b">> >>) }

\* the state when resolveCustomEditor has returned, on one of files
EditorInit(files) ==
    /\ file \in files
    /\ call = NoCall
    /\ pending = <<>>
    /\ issued = <<>>
    /\ table = NoTable
    /\ ld = NoLocals
    /\ result = NoResult
    /\ outFile = NoFile
    /\ other = NoRequest
    /\ web = NoWeb
    /\ toExt = <<>>
    /\ toWeb = <<>>
    /\ disk = [e \in SaveExts \cup {".tmp", ".bak"} |->
                  IF e = ".tmp" THEN NoFile ELSE IF e = ".bak" THEN OtherFile ELSE OldFile]
    /\ doc = NoDoc
    /\ save = NoSave
    /\ fin = NoFin
    /\ retry = NoRetry
    /\ isDisposed = FALSE

\* the editor with its webview, requests overlapping
OverlapSpec == EditorInit(OverlapFiles) /\ [][OverlapNext]_vars

(***************************************************************************)
(* Saving: saveFileData of fileLoader.ts, FlatFileDocument of extension.ts *)
(* and the 'save' and 'finalizeSave' messages.                             *)
(***************************************************************************)
\* extension.ts has its own detectFileType
extensionDetectFileType(ext) ==
    LET e == toLowerCase(ext) IN
    IF e = ".csv" THEN "csv"
    ELSE IF e = ".tsv" THEN "tsv"
    ELSE IF e = ".parquet" \/ e = ".pq" THEN "parquet"
    ELSE IF e = ".xlsx" \/ e = ".xls" THEN "excel"
    ELSE IF e = ".json" THEN "json"
    ELSE "csv"

Cells(rows) == [r \in 1..Len(rows) |-> [k \in 1..Len(rows[r]) |-> CsvCell(rows[r][k])]]

\* Papa.unparse(rows, {fields, delimiter}) with rows an array of arrays: the
\* data lines alone
UnparseRows(type, rows) ==
    [exists |-> TRUE, format |-> type, fields |-> <<>>, data |-> Cells(rows)]

\* worksheet.addRow(columns); rows.forEach(row => worksheet.addRow(row))
Workbook(columns, rows) ==
    [exists |-> TRUE, format |-> "excel", fields |-> columns, data |-> Cells(rows)]

\* JSON.stringify of the rows as objects keyed by column
JsonFile(columns, rows) ==
    [exists |-> TRUE, format |-> "json", fields |-> columns,
     data |-> [r \in 1..Len(rows) |-> [k \in 1..Min(Len(columns), Len(rows[r])) |-> CsvCell(rows[r][k])]]]

SaveStart(op, dest, columns, rows) ==
    [NoSave EXCEPT !.op = op, !.dest = dest, !.columns = columns, !.rows = rows]

Unsupported == "Unsupported file type for saving"

\* saveFileData(filePath, columns, rows) up to its first await or callback
SaveFileData ==
    /\ save.op = "none"
    /\ fin.status = "none"
    /\ \E dest \in SaveExts, t \in Tables :
        LET type == detectFileType(dest)
            s == SaveStart("saveFileData", dest, t.columns, t.rows)
        IN  IF type \in {"csv", "tsv"}
            THEN /\ disk' = [disk EXCEPT ![dest] = UnparseRows(type, t.rows)]
                 /\ save' = [s EXCEPT !.status = "resolved"]
            ELSE IF type = "excel"
            THEN /\ disk' = [disk EXCEPT ![dest] = Workbook(t.columns, t.rows)]
                 /\ save' = [s EXCEPT !.status = "resolved"]
            ELSE IF type = "parquet"
            THEN /\ save' = [s EXCEPT !.status = "pending", !.pc = "createTable"]
                 /\ UNCHANGED disk
            ELSE IF type = "json"
            THEN /\ disk' = [disk EXCEPT ![dest] = JsonFile(t.columns, t.rows)]
                 /\ save' = [s EXCEPT !.status = "resolved"]
            ELSE /\ save' = [s EXCEPT !.status = "rejected", !.error = Unsupported]
                 /\ UNCHANGED disk
    /\ UNCHANGED <<web, toExt, toWeb, doc, fin, retry, isDisposed>>
    /\ UNCHANGED loaderVars

SaveRejected(msg) == [save EXCEPT !.status = "rejected", !.error = msg, !.pc = ""]

\* callback of con.run(createTableQuery)
SaveCreateTableCallback ==
    /\ save.pc = "createTable"
    /\ \E fault \in BOOLEAN :
        IF fault \/ save.columns = <<>> \/ ~NoDuplicates(save.columns)
        THEN save' = SaveRejected("createTable")
        ELSE save' = [save EXCEPT !.table = [columns |-> save.columns, rows |-> <<>>],
                                  !.pc = IF Len(save.rows) > 0 THEN "insert" ELSE "copy"]
    /\ UNCHANGED <<web, toExt, toWeb, disk, doc, fin, retry, isDisposed>>
    /\ UNCHANGED loaderVars

\* callback of con.run(insertQuery)
SaveInsertCallback ==
    /\ save.pc = "insert"
    /\ \E fault \in BOOLEAN :
        IF fault \/ \E r \in 1..Len(save.rows) : Len(save.rows[r]) # Len(save.columns)
        THEN save' = SaveRejected("insert")
        ELSE save' = [save EXCEPT
                        !.table.rows = [r \in 1..Len(save.rows) |->
                                          [k \in 1..Len(save.rows[r]) |->
                                             Stored(InsertLiteral(save.rows[r][k]))]],
                        !.pc = "copy"]
    /\ UNCHANGED <<web, toExt, toWeb, disk, doc, fin, retry, isDisposed>>
    /\ UNCHANGED loaderVars

\* callback of con.run(exportQuery): COPY data TO absPath (FORMAT PARQUET)
SaveCopyCallback ==
    /\ save.pc = "copy"
    /\ \E fault \in BOOLEAN :
        IF fault
        THEN /\ save' = SaveRejected("copy")
             /\ UNCHANGED disk
        ELSE /\ save' = [save EXCEPT !.status = "resolved", !.pc = ""]
             /\ disk' = [disk EXCEPT ![save.dest] =
                           [exists |-> TRUE, format |-> "parquet", fields |-> save.table.columns,
                            data |-> Cells(save.table.rows)]]
    /\ UNCHANGED <<web, toExt, toWeb, doc, fin, retry, isDisposed>>
    /\ UNCHANGED loaderVars

\* FlatFileDocument.saveAs(targetResource)
saveAs(op, dest) ==
    LET type == extensionDetectFileType(dest)
        s == SaveStart(op, dest, doc.columns, doc.rows)
    IN  IF type \in {"csv", "tsv"}
        THEN /\ disk' = [disk EXCEPT ![dest] = UnparseRows(type, doc.rows)]
             /\ save' = [s EXCEPT !.status = "resolved"]
        ELSE IF type = "excel"
        THEN /\ disk' = [disk EXCEPT ![dest] = Workbook(doc.columns, doc.rows)]
             /\ save' = [s EXCEPT !.status = "resolved"]
        ELSE IF type = "parquet"
        THEN /\ save' = [s EXCEPT !.status = "rejected",
                                  !.error = "Saving Parquet files is not supported."]
             /\ UNCHANGED disk
        ELSE IF type = "json"
        THEN /\ disk' = [disk EXCEPT ![dest] = JsonFile(doc.columns, doc.rows)]
             /\ save' = [s EXCEPT !.status = "resolved"]
        ELSE /\ save' = [s EXCEPT !.status = "rejected", !.error = Unsupported]
             /\ UNCHANGED disk

\* FlatFileDocument.save: saveAs(this.uri)
DocSave ==
    /\ save.op = "none"
    /\ fin.status = "none"
    /\ saveAs("save", file.ext)
    /\ UNCHANGED <<web, toExt, toWeb, doc, fin, retry, isDisposed>>
    /\ UNCHANGED loaderVars

\* saveCustomDocumentAs: document.saveAs(destination)
DocSaveAs ==
    /\ save.op = "none"
    /\ fin.status = "none"
    /\ \E dest \in SaveExts : saveAs("saveAs", dest)
    /\ UNCHANGED <<web, toExt, toWeb, doc, fin, retry, isDisposed>>
    /\ UNCHANGED loaderVars

\* FlatFileDocument.backup(destination): saveAs(destination)
DocBackup ==
    /\ save.op = "none"
    /\ fin.status = "none"
    /\ \E dest \in SaveExts : saveAs("backup", dest)
    /\ UNCHANGED <<web, toExt, toWeb, doc, fin, retry, isDisposed>>
    /\ UNCHANGED loaderVars

Reply(type, message) == [type |-> type, data |-> NoResult, message |-> message, for |-> NoCall]

\* the temporary file while writeFile is under way
PartialFile == [exists |-> TRUE, format |-> "partial", fields |-> <<>>, data |-> <<>>]

\* messageHandler for 'save' with msg.columns and msg.rows, up to the await of
\* writeFile(tempFilePath): the write may or may not have created the file yet
SaveMessage ==
    /\ save.op = "none"
    /\ \E t \in Tables, begun \in BOOLEAN :
        LET type == extensionDetectFileType(file.ext)
            s == SaveStart("saveMessage", file.ext, t.columns, t.rows)
        IN  IF type # "csv" /\ type # "tsv"
            THEN /\ save' = [s EXCEPT !.status = "rejected",
                                      !.error = "Shadow save is only supported for CSV and TSV files."]
                 /\ postMessage(<<Reply("error", "Shadow save is only supported for CSV and TSV files.")>>)
                 /\ UNCHANGED disk
            ELSE /\ disk' = [disk EXCEPT ![".tmp"] = IF begun THEN PartialFile ELSE @]
                 /\ save' = [s EXCEPT !.status = "pending", !.pc = "writeFile"]
                 /\ UNCHANGED toWeb
    /\ UNCHANGED <<web, toExt, doc, fin, retry, isDisposed>>
    /\ UNCHANGED loaderVars

\* messageHandler for 'save' after the await: the bytes are written, to the
\* file the write opened even if it was renamed meanwhile; savePrepared is posted
SaveWritten ==
    /\ save.op = "saveMessage"
    /\ save.pc = "writeFile"
    /\ LET content == UnparseRows(extensionDetectFileType(file.ext), save.rows) IN
       disk' = IF fin.renamed = PartialFile /\ ~disk[".tmp"].exists
               THEN [disk EXCEPT ![save.dest] = content]
               ELSE [disk EXCEPT ![".tmp"] = content]
    /\ save' = [save EXCEPT !.status = "resolved", !.pc = ""]
    /\ postMessage(<<Reply("savePrepared", ".tmp")>>)
    /\ UNCHANGED <<web, toExt, doc, fin, retry, isDisposed>>
    /\ UNCHANGED loaderVars

\* document.makeEdit(columns, rows)
makeEdit(columns, rows) == [columns |-> columns, rows |-> rows]

\* the error codes fs.promises.open(filePath, 'r+') can fail with
LockCodes == {"EBUSY", "EPERM", "EACCES"}

Locked == "File is still locked. Please close it in the other program and try again."

\* messageHandler for 'finalizeSave' with msg.tempFile, msg.columns, msg.rows:
\* tempFile is no path, filePath + '.tmp' or the path of another file; open is
\* how fs.promises.open(filePath, 'r+') ends
FinalizeSaveMessage ==
    /\ save.op \in {"none", "saveMessage"}
    /\ fin.status = "none"
    /\ \E tempFile \in {"", ".tmp", ".bak"}, t \in Tables, open \in {"ok", "ENOENT"} \cup LockCodes :
        IF tempFile = ""
        THEN /\ fin' = [fin EXCEPT !.status = "rejected", !.error = "No pending save to finalize."]
             /\ postMessage(<<Reply("error", "No pending save to finalize.")>>)
             /\ UNCHANGED <<disk, doc>>
        ELSE IF ~disk[tempFile].exists
        THEN /\ fin' = [fin EXCEPT !.status = "rejected", !.error = "Temp file no longer exists."]
             /\ postMessage(<<Reply("error", "Temp file no longer exists.")>>)
             /\ UNCHANGED <<disk, doc>>
        ELSE IF open \in LockCodes
        THEN /\ fin' = [fin EXCEPT !.status = "rejected", !.error = Locked, !.attempts = 1]
             /\ postMessage(<<Reply("error", Locked)>>)
             /\ UNCHANGED <<disk, doc>>
        ELSE IF open # "ok"
        THEN /\ fin' = [fin EXCEPT !.status = "rejected", !.error = open, !.attempts = 1]
             /\ postMessage(<<Reply("error", open)>>)
             /\ UNCHANGED <<disk, doc>>
        ELSE /\ disk' = [disk EXCEPT ![file.ext] = disk[tempFile], ![tempFile] = NoFile]
             /\ doc' = makeEdit(t.columns, t.rows)
             /\ fin' = [fin EXCEPT !.status = "resolved", !.attempts = 1, !.tempFile = tempFile,
                                    !.renamed = disk[tempFile]]
             /\ postMessage(<<Reply("saveComplete", "")>>)
    /\ UNCHANGED <<web, toExt, save, retry, isDisposed>>
    /\ UNCHANGED loaderVars

(***************************************************************************)
(* extension.ts: withRetry                                                 *)
(***************************************************************************)
\* the attempt budgets and base delays withRetry is called with
RetryBudgets == (0..MaxBudget) \cup {DefaultMaxAttempts}
RetryDelays == {1, DefaultDelayMs}

\* how a call of operation ends: it returns, or throws an error with a lock
\* code, with another code, or with no code
Outcomes == {"ok", "ENOENT", "Error"} \cup LockCodes

backoffLinear(delayMs, attempt) == delayMs * attempt

\* delayMs * Math.pow(2, attempt - 1)
backoff(delayMs, attempt) == delayMs * 2 ^ (attempt - 1)

\* err.code === 'EBUSY' || err.code === 'EPERM' || err.code === 'EACCES'
isLockError(code) == code \in LockCodes

\* withRetry(operation, maxAttempts, delayMs) up to the loop's first test
WithRetry ==
    /\ retry.status = "none"
    /\ \E m \in RetryBudgets, d \in RetryDelays :
        retry' = [NoRetry EXCEPT !.maxAttempts = m, !.delayMs = d, !.attempt = 1,
                                 !.status = IF 1 <= m THEN "running" ELSE "resolved"]
    /\ UNCHANGED <<web, toExt, toWeb, disk, doc, save, fin, isDisposed>>
    /\ UNCHANGED loaderVars

\* one pass of the loop body: await operation(), and the catch
RetryAttempt ==
    /\ retry.status = "running"
    /\ \E out \in Outcomes :
        retry' =
            IF out = "ok"
            THEN [retry EXCEPT !.calls = @ + 1, !.last = out, !.status = "resolved"]
            ELSE IF retry.attempt = retry.maxAttempts \/ ~isLockError(out)
            THEN [retry EXCEPT !.calls = @ + 1, !.last = out, !.status = "rejected", !.error = out]
            ELSE [retry EXCEPT !.calls = @ + 1, !.last = out, !.status = "sleeping",
                               !.retried = @ \cup {out},
                               !.waits = Append(@, backoff(retry.delayMs, retry.attempt))]
    /\ UNCHANGED <<web, toExt, toWeb, disk, doc, save, fin, isDisposed>>
    /\ UNCHANGED loaderVars

\* the timer of the backoff fires: attempt++ and the loop's test
RetryWake ==
    /\ retry.status = "sleeping"
    /\ retry' = [retry EXCEPT !.attempt = @ + 1,
                              !.status = IF retry.attempt + 1 <= retry.maxAttempts
                                         THEN "running" ELSE "resolved"]
    /\ UNCHANGED <<web, toExt, toWeb, disk, doc, save, fin, isDisposed>>
    /\ UNCHANGED loaderVars

RetryNext ==
    \/ WithRetry
    \/ RetryAttempt
    \/ RetryWake

\* a call of withRetry
RetrySpec == Init /\ [][RetryNext]_vars

\* the document as openCustomDocument made it, before any request
OpenedInit ==
    /\ file \in Files
    /\ call = NoCall
    /\ pending = <<>>
    /\ issued = <<>>
    /\ table = NoTable
    /\ ld = NoLocals
    /\ result = NoResult
    /\ outFile = NoFile
    /\ other = NoRequest
    /\ web = NoWeb
    /\ toExt = <<>>
    /\ toWeb = <<>>
    /\ disk = [e \in SaveExts \cup {".tmp", ".bak"} |->
                  IF e = ".tmp" THEN NoFile ELSE IF e = ".bak" THEN OtherFile ELSE OldFile]
    /\ doc \in Tables
    /\ save = NoSave
    /\ fin = NoFin
    /\ retry = NoRetry
    /\ isDisposed = FALSE

SaveNext ==
    \/ SaveFileData
    \/ SaveCreateTableCallback
    \/ SaveInsertCallback
    \/ SaveCopyCallback
    \/ DocSave
    \/ DocSaveAs
    \/ DocBackup
    \/ SaveMessage
    \/ SaveWritten
    \/ FinalizeSaveMessage
    \/ WebOnMessage

\* one save on an opened document
SaveSpec == OpenedInit /\ [][SaveNext]_vars

(***************************************************************************)
(* The SQL editor of the webview: the textarea and its history.            *)
(***************************************************************************)
\* the texts the textarea can hold after an edit
HistorySqls == {<<>>, DefaultSql, <<"bogus">>}

\* onChange of the SQL textarea with any text, while the history has at most
\* MaxEdits entries
HistoryEdit ==
    /\ web.mounted
    /\ Len(web.sqlHistory) <= MaxEdits
    /\ \E q \in HistorySqls : web' = addToHistory(web, q)
    /\ UNCHANGED <<file, call, pending, issued, table, ld, result, outFile, other, toExt, toWeb, disk, doc, save, fin, retry, isDisposed>>

\* onKeyDown of the textarea with Ctrl+Z
ctrlZ ==
    /\ web.mounted
    /\ web' = IF web.historyIndex > 0
              THEN [web EXCEPT !.historyIndex = web.historyIndex - 1]
              ELSE web
    /\ UNCHANGED <<file, call, pending, issued, table, ld, result, outFile, other, toExt, toWeb, disk, doc, save, fin, retry, isDisposed>>

\* onKeyDown of the textarea with Ctrl+Y
ctrlY ==
    /\ web.mounted
    /\ web' = IF web.historyIndex < Len(web.sqlHistory) - 1
              THEN [web EXCEPT !.historyIndex = web.historyIndex + 1]
              ELSE web
    /\ UNCHANGED <<file, call, pending, issued, table, ld, result, outFile, other, toExt, toWeb, disk, doc, save, fin, retry, isDisposed>>

HistoryNext ==
    \/ WebMount
    \/ HistoryEdit
    \/ ctrlZ
    \/ ctrlY
    \/ handleReset

\* the SQL editor alone: no request is answered
HistorySpec == EditorInit(OverlapFiles) /\ [][HistoryNext]_vars

(***************************************************************************)
(* The webview panel is disposed while loads and saves are under way.      *)
(***************************************************************************)
\* webviewPanel.onDidDispose(() => { isDisposed = true; })
onDidDispose ==
    /\ ~isDisposed
    /\ isDisposed' = TRUE
    /\ UNCHANGED <<web, toExt, toWeb, disk, doc, save, fin, retry>>
    /\ UNCHANGED loaderVars

\* the files of the disposed editor: the delimited files with the header a, b
\* and MaxRows data lines
DisposeFiles ==
    { f \in GridFiles(".csv") :
        Len(f.lines) = MaxRows + 1 /\ f.lines[1] = HeaderLine(<< <<"a">>, <<"b">> >>) }

DisposeNext ==
    \/ WebMount
    \/ onDidDispose
    \/ ExtRequestPage
    \/ RegisterCallback
    \/ LogCountCallback
    \/ CountCallback
    \/ DescribeCallback
    \/ QueryCallback
    \/ FetchPageResolved
    \/ FetchPageRejected
    \/ WebOnMessage
    \/ SaveMessage
    \/ SaveWritten
    \/ FinalizeSaveMessage

\* the editor of a delimited file, its panel disposed at any moment
DisposeSpec == EditorInit(DisposeFiles) /\ [][DisposeNext]_vars

(***************************************************************************)
(* Properties.                                                             *)
(***************************************************************************)
HasText(s) == \E i \in 1..Len(s) : s[i] \notin WS

NonWsPositions(s) == SelectSeq([i \in 1..Len(s) |-> i], LAMBDA i : s[i] \notin WS)

\* q is s with every whitespace run replaced by one blank and none at the ends
CollapsedAt(q, s, pq, ps) ==
    /\ Len(pq) = Len(ps)
    /\ \A k \in 1..Len(pq) : q[pq[k]] = s[ps[k]]
    /\ \A k \in 1..(Len(pq) - 1) : (pq[k + 1] > pq[k] + 1) <=> (ps[k + 1] > ps[k] + 1)
    /\ \A i \in 1..Len(q) :
         q[i] \in WS => /\ q[i] = " "
                        /\ i > 1 /\ i < Len(q)
                        /\ q[i - 1] \notin WS /\ q[i + 1] \notin WS

IsCollapsedTrimmed(q, s) == CollapsedAt(q, s, NonWsPositions(q), NonWsPositions(s))

\* s without the whitespace at its ends
TrimmedAt(s, ps) == IF ps = <<>> THEN <<>> ELSE SubSeq(s, ps[1], ps[Len(ps)])
Trimmed(s) == TrimmedAt(s, NonWsPositions(s))

QuoteCount(s) == Len(SelectSeq(s, LAMBDA a : a = "'"))

IsExecuted(st) == st.cb \in {"query", "query2"}

IsSearchFilter(q, limit, offset) ==
    /\ Len(q) > 18
    /\ SubSeq(q, 1, 10) = <<"SELECT", " ", "*", " ", "FROM", " ", "data", " ", "WHERE", " ">>
    /\ SubSeq(q, Len(q) - 7, Len(q)) =
          <<" ", "LIMIT", " ", ToString(limit), " ", "OFFSET", " ", ToString(offset)>>

\* C1: in every loader the executed statement is sql, whitespace runs
\* collapsed and trimmed, when sql has text; else the search-filter statement
\* when search has text; else SELECT * FROM data LIMIT <limit> OFFSET <offset>.
C1_StatementByPrecedence ==
    \A i \in 1..Len(issued) :
        IsExecuted(issued[i]) =>
            IF HasText(call.sql) THEN IsCollapsedTrimmed(issued[i].text, call.sql)
            ELSE IF HasText(call.search)
            THEN IsSearchFilter(issued[i].text, call.limit, call.offset)
            ELSE issued[i].text =
                    <<"SELECT", " ", "*", " ", "FROM", " ", "data", " ", "LIMIT", " ",
                      ToString(call.limit), " ", "OFFSET", " ", ToString(call.offset)>>

\* a statement from sql was executed although search had text too, and
\* collapsing changed the text
C1_Witness ==
    \E i \in 1..Len(issued) :
        /\ IsExecuted(issued[i])
        /\ HasText(call.sql) /\ HasText(call.search)
        /\ issued[i].text # call.sql

\* C2: the total of a successful result is the row count of table `data`,
\* whatever offset, limit, search and sql are.
C2_TotalIsBaseCount ==
    result.status = "resolved" => result.total = Len(table.rows)

\* a custom statement returned fewer rows than the table holds
C2_Witness ==
    /\ result.status = "resolved"
    /\ HasText(call.sql)
    /\ Len(result.rows) > 0
    /\ Len(result.rows) < result.total

\* C3: a successful result has at most `limit` rows, each of columns.length
\* values.
C3_PageWithinLimit ==
    result.status = "resolved" =>
        /\ Len(result.rows) <= result.limit
        /\ \A r \in 1..Len(result.rows) : Len(result.rows[r]) = Len(result.columns)

\* the columns the executed statement returns for table `data`
WouldReturn(p) ==
    IF p.count THEN <<p.alias>> ELSE Map(table.columns, sanitizeColumnName)

\* C4: when the statement returned no row, the result carries no row and the
\* column list the statement would have returned.
C4_ZeroRowsKeepColumns ==
    (result.status = "resolved" /\ \E i \in 1..Len(issued) : issued[i].cb \in {"limit0", "limit02"})
        => /\ result.rows = <<>>
           /\ result.columns = WouldReturn(Parse(ld.query))

\* C5: the search-filter statement references only columns of table `data`.
C5_SearchReferencesExistingColumns ==
    \A i \in 1..Len(issued) :
        (IsExecuted(issued[i]) /\ ~HasText(call.sql) /\ HasText(call.search))
            => ReferencedColumns(issued[i].text) \subseteq Range(table.columns)

SearchFilterShape(text, p, needle) ==
    /\ p.ok /\ p.where /\ ~p.count
    /\ p.limit = call.limit /\ p.offset = call.offset /\ p.limit2 = -1
    /\ Len(p.conds) = Len(table.columns)
    /\ \A k \in 1..Len(p.conds) :
         /\ p.conds[k].col = sanitizeColumnName(table.columns[k])
         /\ p.conds[k].pat = <<"%">> \o needle \o <<"%">>
    /\ QuoteCount(text) = Len(p.conds) * (2 + 2 * QuoteCount(needle))

\* C6: the search-filter statement selects with one LIKE term per sanitized
\* column of the table, in table order, each on '%n%' where n is the trimmed
\* search text with its quotes doubled, then LIMIT <limit> OFFSET <offset>.
C6_SearchFilterShape ==
    \A i \in 1..Len(issued) :
        (IsExecuted(issued[i]) /\ ~HasText(call.sql) /\ HasText(call.search))
            => SearchFilterShape(issued[i].text, Parse(issued[i].text), Trimmed(call.search))

\* a search with a quote in it was turned into a statement over two columns
C6_Witness ==
    \E i \in 1..Len(issued) :
        /\ IsExecuted(issued[i])
        /\ ~HasText(call.sql)
        /\ QuoteCount(call.search) > 0
        /\ Len(table.columns) = 2

\* C8: the columns of a successful result are pairwise different.
C8_ColumnsUnique ==
    result.status = "resolved" => NoDuplicates(result.columns)

\* C9: exporting a delimited file without search and sql writes the header
\* with whitespace runs as underscores and the cells of the source, in order.
C9_RoundTrip ==
    (/\ call.op = "exported"
     /\ detectFileType(file.ext) = "csv"
     /\ ~HasText(call.search) /\ ~HasText(call.sql))
        => /\ outFile.exists
           /\ outFile.fields = [k \in 1..Len(file.lines[1]) |-> sanitizeColumnName(file.lines[1][k].s)]
           /\ outFile.data = [r \in 1..(Len(file.lines) - 1) |->
                                [k \in 1..Len(file.lines[r + 1]) |-> file.lines[r + 1][k].s]]

\* needle occurs in text
Contains(text, needle) ==
    \E i \in 0..(Len(text) - Len(needle)) : SubSeq(text, i + 1, i + Len(needle)) = needle

\* C7: the page the webview shows for a request with a non-empty search term
\* and the editor's default statement holds only rows in which some cell
\* contains the term.
C7_SearchEnterFilters ==
    (/\ web.dataFor.op = "page"
     /\ Trim(web.dataFor.search) # <<>>
     /\ web.dataFor.sql = DefaultSql)
        => \A r \in 1..Len(web.data.rows) :
               \E k \in 1..Len(web.data.rows[r]) :
                   /\ web.data.rows[r][k].t = "string"
                   /\ Contains(web.data.rows[r][k].s, Trim(web.dataFor.search))

\* C10: a finished save to a destination with extension .xml, on any of the
\* save paths, was rejected as unsupported and left the destination as it was.
C10_XmlSaveUnsupported ==
    (/\ save.op \in {"saveFileData", "save", "saveAs", "backup", "saveMessage"}
     /\ save.status # "pending"
     /\ toLowerCase(save.dest) = ".xml")
        => /\ save.status = "rejected"
           /\ save.error = Unsupported
           /\ disk[save.dest] = OldFile

\* C11: a finalizeSave that ends with the file-locked error has made the
\* whole budget of attempts, and the destination is as it was.
C11_LockedAfterBudget ==
    (fin.status = "rejected" /\ fin.error = Locked)
        => /\ fin.attempts = DefaultMaxAttempts
           /\ disk[file.ext] = OldFile

\* C12: a step of the 'save' and 'finalizeSave' handlers changes the
\* destination only as the rename of a completely written temporary file after
\* an open that found no lock; a step that ends with the file-locked error
\* changes no file.
C12_OverwriteOnlyByRename ==
    [][/\ (disk'[file.ext] # disk[file.ext] /\ save'.op \in {"none", "saveMessage"})
            => /\ fin.status = "none" /\ fin'.status = "resolved"
               /\ save.op = "saveMessage" /\ save.status = "resolved"
               /\ disk[".tmp"] = UnparseRows(extensionDetectFileType(file.ext), save.rows)
               /\ disk'[file.ext] = disk[".tmp"]
       /\ (fin.status = "none" /\ fin'.error = Locked) => disk' = disk]_vars

\* C13: withRetry calls operation at most maxAttempts times and stops at the
\* first call that returns; it retries only after an error with a lock code,
\* after waiting delayMs * 2^(k-1) following the k-th failed call; an error
\* with another code, or the error of call maxAttempts, is rethrown at once.
C13_WithRetry ==
    retry.status # "none" =>
        /\ retry.calls <= retry.maxAttempts
        /\ retry.retried \subseteq LockCodes
        /\ retry.waits = [k \in 1..Len(retry.waits) |-> retry.delayMs * 2 ^ (k - 1)]
        /\ retry.status = "running" => Len(retry.waits) = retry.calls
        /\ retry.status = "sleeping" =>
               /\ Len(retry.waits) = retry.calls
               /\ retry.calls < retry.maxAttempts
               /\ retry.last \in LockCodes
        /\ retry.status = "resolved" =>
               \/ retry.calls = 0 /\ retry.maxAttempts = 0
               \/ retry.last = "ok" /\ Len(retry.waits) = retry.calls - 1
        /\ retry.status = "rejected" =>
               /\ retry.last # "ok"
               /\ retry.error = retry.last
               /\ Len(retry.waits) = retry.calls - 1
               /\ retry.last \notin LockCodes \/ retry.calls = retry.maxAttempts

\* the default budget was used up by lock errors: ten calls, nine waits
C13_Witness ==
    /\ retry.status = "rejected"
    /\ retry.maxAttempts = DefaultMaxAttempts
    /\ retry.calls = DefaultMaxAttempts
    /\ retry.last \in LockCodes
    /\ Len(retry.waits) = DefaultMaxAttempts - 1

\* the table a request ingests when it runs alone
Ingested(req) ==
    IF req.call.loader = "duckdb" THEN ReadCsv(file)
    ELSE [exists |-> TRUE, columns |-> req.ld.columns,
          rows |-> [r \in 1..Len(req.ld.dataRows) |->
                      [k \in 1..Len(req.ld.dataRows[r]) |->
                         Stored(InsertLiteral(req.ld.dataRows[r][k]))]]]

\* the statement a request executes when it runs alone
StatementAlone(req) ==
    IF Trim(req.call.sql) # <<>> THEN CustomQuery(req.call.sql)
    ELSE IF Trim(req.call.search) # <<>>
    THEN SearchQuery(IF req.call.loader = "duckdb"
                     THEN Conditions(Map(Ingested(req).columns, sanitizeColumnName),
                                     Needle(req.call.search))
                     ELSE QuotedConditions(req.ld.columns, Needle(req.call.search)),
                     req.call.limit, req.call.offset)
    ELSE PageQuery(req.call.limit, req.call.offset)

\* the answer of the engine to a request that runs alone
AnswerAlone(req) == Exec(StatementAlone(req), Ingested(req)).rows

\* a resolved request carries the columns, rows and total it has when it
\* runs alone
SameAsAlone(req) ==
    req.result.status = "resolved" =>
        IF req.issued = <<>>
        THEN req.result = Empty(req.call.offset, req.call.limit)
        ELSE /\ req.result.columns = (IF AnswerAlone(req) = <<>> THEN <<>>
                                      ELSE QueryColumns(AnswerAlone(req)))
             /\ req.result.rows = returnData(req.result.columns, AnswerAlone(req), 0).rows
             /\ req.result.total = Len(Ingested(req).rows)
             /\ req.result.offset = req.call.offset
             /\ req.result.limit = req.call.limit

\* C14: of two requests whose callbacks interleave, each resolves with the
\* result it has when it runs alone on the file.
C14_RequestsIsolated ==
    /\ SameAsAlone(other)
    /\ SameAsAlone([call |-> call, pending |-> pending, issued |-> issued, table |-> table,
                    ld |-> ld, result |-> result])

\* a request resolved with rows while the other request, whose table exists
\* already, still waits for a callback
C14_Witness ==
    /\ result.status = "resolved"
    /\ Len(result.rows) > 0
    /\ other.result.status = "pending"
    /\ other.table.exists
    /\ other.call # call

\* the statement whose callback rejected the request: callbacks fire in the
\* order of issue, and the rejecting one is the last that fired
FailedStatement == issued[Len(issued) - Len(pending)]

\* C15: a request rejected by the callback of the table-creation statement or
\* of the executed statement carries the engine's diagnostic for it, and the
\* statement was issued once.
C15_EngineDiagnosticKept ==
    (/\ result.status = "rejected"
     /\ Len(issued) > Len(pending)
     /\ FailedStatement.cb \in {"register", "createTable", "query", "query2"})
        => /\ result.error = Diagnostic(IF FailedStatement.cb = "query2" THEN "query"
                                        ELSE FailedStatement.cb)
           /\ Cardinality({i \in 1..Len(issued) : issued[i].cb = FailedStatement.cb}) = 1

\* the kind the specification gives an extension
KindOf(ext) ==
    LET e == toLowerCase(ext) IN
    CASE e = ".csv" -> "csv"
      [] e = ".tsv" -> "tsv"
      [] e \in {".parquet", ".pq"} -> "parquet"
      [] e \in {".xlsx", ".xls"} -> "excel"
      [] e = ".json" -> "json"
      [] e = ".xml" -> "xml"
      [] OTHER -> "csv"

\* C16: for the destination of every save, the loader's detector and the
\* editor's detector both return the kind of the extension.
C16_DetectorsAgree ==
    save.op # "none" =>
        /\ detectFileType(save.dest) = KindOf(save.dest)
        /\ extensionDetectFileType(save.dest) = detectFileType(save.dest)

\* C19: a finished save to a .parquet or .pq destination by saveFileData or
\* FlatFileDocument.saveAs went through create table, insert (when there are
\* rows) and copy: it wrote the table as parquet unless the engine failed.
C19_ParquetSave ==
    (/\ save.op \in {"saveFileData", "saveAs"}
     /\ save.status \in {"resolved", "rejected"}
     /\ KindOf(save.dest) = "parquet")
        => IF save.status = "resolved"
           THEN /\ disk[save.dest].format = "parquet"
                /\ disk[save.dest].fields = save.columns
                /\ disk[save.dest].data = Cells(save.rows)
           ELSE save.error \in {"createTable", "insert", "copy"}

\* the header names of a delimited file or a worksheet
HeaderNames(f) == IF Len(f.lines) = 0 THEN <<>> ELSE [k \in 1..Len(f.lines[1]) |-> f.lines[1][k].s]

\* name with every maximal run of whitespace replaced by one underscore: the
\* first character of a run becomes the underscore, the rest of it goes
RunsAsUnderscore(name) ==
    LET kept == SelectSeq([i \in 1..Len(name) |-> i],
                          LAMBDA i : name[i] \notin WS \/ i = 1 \/ name[i - 1] \notin WS)
    IN  [j \in 1..Len(kept) |-> IF name[kept[j]] \in WS THEN "_" ELSE name[kept[j]]]

\* C17: for every header name of the source, sanitizeColumnName gives the name
\* with every maximal whitespace run as one underscore, and sanitizing the
\* outcome again changes nothing.
C17_SanitizeIdempotent ==
    \A k \in 1..Len(HeaderNames(file)) :
        LET name == HeaderNames(file)[k] IN
        /\ sanitizeColumnName(name) = RunsAsUnderscore(name)
        /\ sanitizeColumnName(sanitizeColumnName(name)) = sanitizeColumnName(name)

\* a file was loaded whose header has a run of two whitespace characters, and
\* the result's column is the sanitized, shorter name
C17_Witness ==
    /\ result.status = "resolved"
    /\ \E k \in 1..Len(HeaderNames(file)) :
        /\ k <= Len(result.columns)
        /\ result.columns[k] = sanitizeColumnName(HeaderNames(file)[k])
        /\ Len(result.columns[k]) < Len(HeaderNames(file)[k])

\* C18: exportData runs the load with offset 0 and limit MAX_SAFE_INTEGER;
\* until the load has resolved the file at outPath is as it was, and after the
\* write it holds the result's columns as header and every row of the result
\* as comma-separated text, whatever it held before.
C18_ExportWritesWholeResult ==
    /\ call.op \in {"export", "exported"} =>
           /\ call.offset = 0
           /\ call.limit = MAX_SAFE_INTEGER
    /\ call.op = "export" => outFile \in {NoFile, OldFile}
    /\ call.op = "exported" =>
           /\ result.status = "resolved"
           /\ outFile.exists
           /\ outFile.format = "csv"
           /\ outFile.fields = result.columns
           /\ outFile.data = [r \in 1..Len(result.rows) |->
                                [k \in 1..Len(result.rows[r]) |-> CsvCell(result.rows[r][k])]]
           /\ (~HasText(call.sql) /\ ~HasText(call.search)) => Len(result.rows) = Len(table.rows)

\* an export wrote a header and more than one row
C18_Witness ==
    /\ call.op = "exported"
    /\ Len(outFile.fields) > 0
    /\ Len(outFile.data) > 1

\* an export whose load was rejected left the file that was at outPath
C18_WitnessFailed ==
    /\ call.op = "export"
    /\ result.status = "rejected"
    /\ outFile = OldFile

\* the rows the engine answered the executed statement with
EngineRows == Exec(ld.query, table).rows

C21_OneStatementInFlight == Len(pending) <= 1

\* C22: when the spreadsheet loader has created and filled table `data`, the
\* table's columns are the sanitized cells of the first worksheet row and its
\* rows are the later worksheet rows, every cell as the text of its value; a
\* worksheet without rows resolves empty, with total 0 and no statement issued.
C22_SpreadsheetCellsAsText ==
    call.loader = "excel" =>
        /\ table.exists =>
              table.columns = [k \in 1..Len(file.lines[1]) |-> sanitizeColumnName(file.lines[1][k].s)]
        /\ (table.exists /\ table.rows # <<>>) =>
              table.rows = [r \in 1..(Len(file.lines) - 1) |->
                              [k \in 1..Len(file.lines[r + 1]) |-> Text(String(file.lines[r + 1][k]))]]
        /\ (Len(file.lines) = 0 /\ result.status = "resolved") =>
              /\ result.columns = <<>> /\ result.rows = <<>> /\ result.total = 0
              /\ issued = <<>> /\ ~table.exists

\* the flattened records of the source document
Records == LET items == Items(file.parsed) IN [i \in 1..Len(items) |-> flattenObject(items[i].s, <<>>)]

HasKey(record, key) == \E j \in 1..Len(record) : record[j][1] = key

\* where a key appears first: the record and the place among its keys
FirstAt(records, key) ==
    LET i == CHOOSE i \in 1..Len(records) :
                 HasKey(records[i], key) /\ \A h \in 1..(i - 1) : ~HasKey(records[h], key)
        j == CHOOSE j \in 1..Len(records[i]) : records[i][j][1] = key
    IN  <<i, j>>

Earlier(p, q) == p[1] < q[1] \/ (p[1] = q[1] /\ p[2] < q[2])

\* C23: the markup loader's columns are the keys of the flattened records,
\* each once, in order of first appearance in document order, and row i holds
\* for each column the value record i has for that key, or the empty string
\* when record i has no such key.
C23_MarkupColumnsAndRows ==
    (call.loader = "xml" /\ issued # <<>>) =>
        /\ NoDuplicates(ld.columns)
        /\ Range(ld.columns) = UNION { Range(ObjectKeys(Records[i])) : i \in 1..Len(Records) }
        /\ \A a, b \in 1..Len(ld.columns) :
               a < b => Earlier(FirstAt(Records, ld.columns[a]), FirstAt(Records, ld.columns[b]))
        /\ Len(ld.dataRows) = Len(Records)
        /\ \A i \in 1..Len(Records) :
               /\ Len(ld.dataRows[i]) = Len(ld.columns)
               /\ \A k \in 1..Len(ld.columns) :
                      ld.dataRows[i][k] = IF HasKey(Records[i], ld.columns[k])
                                          THEN Get(Records[i], ld.columns[k])
                                          ELSE Text(<<>>)

\* the leaves of a tree, each with the underscore-joined keys on its path
\* after prefix: a leaf is any value that is not a non-array object
RECURSIVE Leaves(_, _)
Leaves(obj, prefix) ==
    IF obj = <<>> THEN <<>>
    ELSE LET key == obj[1][1]
             path == IF prefix # <<>> THEN prefix \o <<"_">> \o key ELSE key
         IN  (IF obj[1][2].t = "object" THEN Leaves(obj[1][2].s, path) ELSE << <<path, obj[1][2]>> >>)
             \o Leaves(Tail(obj), prefix)

\* C24: flattenObject of a record of the source document holds every scalar
\* or array leaf of the record as the value of the key made of the keys on
\* the leaf's path joined with underscores, an array as one value, and holds
\* no other key.
C24_FlattenKeepsEveryLeaf ==
    (call.loader = "xml" /\ issued # <<>>) =>
        \A i \in 1..Len(Records) :
            LET leaves == Leaves(Items(file.parsed)[i].s, <<>>) IN
            /\ \A n \in 1..Len(leaves) : Get(Records[i], leaves[n][1]) = leaves[n][2]
            /\ \A j \in 1..Len(Records[i]) :
                   \E n \in 1..Len(leaves) : leaves[n][1] = Records[i][j][1]

Settled == result.status \in {"resolved", "rejected"}

\* a statement whose callback resolves, rejects or issues a statement
CanSettle(st) == st.cb # "logCount"

\* C25: a request that is not settled has a statement whose callback is still
\* to fire; once it is settled no statement is left whose callback could
\* settle it again or issue another statement; the statement was executed at
\* most once; a request issues at most seven statements, so the callbacks
\* run out; and a settled promise keeps its outcome.
C25_SettledExactlyOnce ==
    /\ [](result.status = "pending" => \E i \in 1..Len(pending) : CanSettle(pending[i]))
    /\ [](Settled => \A i \in 1..Len(pending) : ~CanSettle(pending[i]))
    /\ [](Cardinality({i \in 1..Len(issued) : IsExecuted(issued[i])}) <= 1)
    /\ [](Len(issued) <= 7)
    /\ [][Settled => result' = result]_vars

\* a search request whose filter matched no row was rejected by the callback
\* of the LIMIT 0 statement
C25_Witness ==
    /\ result.status = "rejected"
    /\ HasText(call.search)
    /\ pending = <<>>
    /\ issued # <<>>
    /\ issued[Len(issued)].cb \in {"limit0", "limit02"}

\* C26: the destination is changed by a 'finalizeSave' message only when a
\* 'save' message of the editor came before it and tempFile names the file
\* that message wrote, filePath + '.tmp'; with no 'save' before it, or with
\* another path in tempFile, the destination stays as it was.
C26_RenamesOnlyPreparedTemp ==
    (/\ save.op \in {"none", "saveMessage"}
     /\ ~(save.op = "saveMessage" /\ fin.tempFile = ".tmp"))
        => disk[file.ext] = OldFile

\* C27: after a successful finalizeSave the document holds the columns and
\* rows of the 'save' message whose serialization is the file now at the
\* destination.
C27_DocumentMatchesFile ==
    fin.status = "resolved" =>
        /\ save.op = "saveMessage"
        /\ doc.columns = save.columns
        /\ doc.rows = save.rows
        /\ disk[file.ext] = UnparseRows(extensionDetectFileType(file.ext), doc.rows)

\* every posted request is answered and the answers are handled
Quiet == web.mounted /\ toExt = <<>> /\ toWeb = <<>> /\ Unanswered = 0

\* C28: when every request is answered and a page is displayed, it is the
\* page of the request the webview posted last.
C28_LatestRequestDisplayed ==
    (Quiet /\ web.dataFor # NoCall) =>
        /\ web.dataFor.offset = web.sent.offset
        /\ web.dataFor.search = web.sent.search
        /\ web.dataFor.sql = web.sent.sql

\* C29: once the panel is disposed no message is added to those posted to
\* the webview, whatever load or save ends after the disposal.
C29_SilentAfterDispose == [][isDisposed => toWeb' = toWeb]_vars

\* the panel was disposed while the load of a page was awaited, and the load
\* resolved after it without a message being posted
C29_Witness ==
    /\ isDisposed
    /\ call.op = "paged"
    /\ result.status = "resolved"
    /\ toWeb = <<>>
    /\ web.dataFor = NoCall
    /\ save.status = "resolved"

\* C30: historyIndex is a position of sqlHistory; Ctrl+Z and Ctrl+Y keep
\* sqlHistory and move the index by one inside it, or change nothing at its
\* ends; every other change of the history is an edit that differs from the
\* current entry: the entries after historyIndex are dropped, the new text is
\* appended and is the current entry.
C30_HistoryWellFormed ==
    /\ [](web.historyIndex >= 0 /\ web.historyIndex < Len(web.sqlHistory))
    /\ [][ctrlZ => /\ web'.sqlHistory = web.sqlHistory
                   /\ web'.historyIndex = IF web.historyIndex = 0 THEN 0 ELSE web.historyIndex - 1]_vars
    /\ [][ctrlY => /\ web'.sqlHistory = web.sqlHistory
                   /\ web'.historyIndex = IF web.historyIndex = Len(web.sqlHistory) - 1
                                          THEN web.historyIndex ELSE web.historyIndex + 1]_vars
    /\ [][web'.sqlHistory # web.sqlHistory =>
             /\ Len(web'.sqlHistory) = web.historyIndex + 2
             /\ SubSeq(web'.sqlHistory, 1, web.historyIndex + 1)
                    = SubSeq(web.sqlHistory, 1, web.historyIndex + 1)
             /\ web'.sqlHistory[web.historyIndex + 2] # web.sqlHistory[web.historyIndex + 1]
             /\ web'.historyIndex = web.historyIndex + 1]_vars
    /\ [][web'.sqlHistory = web.sqlHistory =>
             web'.historyIndex \in {web.historyIndex - 1, web.historyIndex, web.historyIndex + 1}]_vars

\* Reset was clicked, which left three entries or more, and the history has
\* two: Ctrl+Z went back to the first entry and an edit there dropped the rest
C30_Witness ==
    /\ Len(toExt) = 2
    /\ Len(web.sqlHistory) = 2
    /\ web.historyIndex = 1

=============================================================================
